---- MODULE Spec2Model ----
(***************************************************************************)
(* A model of the PalmTree B+ tree (bodil/palmtree): the tree facade, the  *)
(* leaf and branch nodes, the search primitives, the pathed pointer        *)
(* (cursor), the entry API, bulk load and the iterators.                   *)
(*                                                                         *)
(* Indices are 0-based as in the source; a Rust slice s[i] is At(s, i).    *)
(* Option<T> is a sequence: None == <<>>, Some(x) == <<x>>.                *)
(* A node pointer is the path of child indices that leads to the node from *)
(* the root; a stack frame of a cursor is [b |-> path of the branch,       *)
(* i |-> index within the branch].                                         *)
(***************************************************************************)
EXTENDS Integers, Sequences, FiniteSets, TLC

VARIABLES root, size, nat, pc, ret, it

vars == <<root, size, nat, pc, ret, it>>

(***************************************************************************)
(* Node sizes: the type parameters B and L of PalmTree, which must exceed  *)
(* 3; the model instantiates both at 4, the smallest legal configuration.  *)
(***************************************************************************)
BranchSize == 4

LeafSize == 4

None == <<>>

Some(x) == <<x>>

IsSome(o) == Len(o) > 0

Unwrap(o) == o[1]

At(s, i) == s[i + 1]

Last(s) == s[Len(s)]

SetAt(s, i, x) == [s EXCEPT ![i + 1] = x]

\* Array::insert: shifts slots [i, len) right by one and writes x at i.
ArrayInsert(s, i, x) == SubSeq(s, 1, i) \o <<x>> \o SubSeq(s, i + 1, Len(s))

\* Array::insert_pair: shifts right by two and writes two elements.
ArrayInsertPair(s, i, x, y) == SubSeq(s, 1, i) \o <<x, y>> \o SubSeq(s, i + 1, Len(s))

\* Array::remove: reads slot i and shifts slots (i, len) left by one.
ArrayRemove(s, i) == SubSeq(s, 1, i) \o SubSeq(s, i + 2, Len(s))

(***************************************************************************)
(* Search primitives (search.rs).                                          *)
(***************************************************************************)
RECURSIVE find_key_linear_from(_, _, _)
find_key_linear_from(keys, target, index) ==
    IF index >= Len(keys) THEN None
    ELSE IF target <= At(keys, index) THEN Some(index)
    ELSE find_key_linear_from(keys, target, index + 1)

find_key_linear(keys, target) == find_key_linear_from(keys, target, 0)

RECURSIVE find_key_loop(_, _, _, _)
find_key_loop(keys, key, low, high) ==
    IF low = high THEN low
    ELSE LET mid == (low + high) \div 2
         IN  IF At(keys, mid) < key
             THEN find_key_loop(keys, key, mid + 1, high)
             ELSE find_key_loop(keys, key, low, mid)

\* find_key without the last comparison against the key.
find_key_unchecked_end(keys, key) ==
    LET sz == Len(keys)
    IN  IF sz = 0 THEN None ELSE Some(find_key_loop(keys, key, 0, sz - 1))

find_key(keys, key) ==
    LET sz == Len(keys)
    IN  IF sz = 0 THEN None
        ELSE LET low == find_key_loop(keys, key, 0, sz - 1)
             IN  IF low = sz \/ At(keys, low) < key THEN None ELSE Some(low)

find_key_or_next(keys, key) == find_key_loop(keys, key, 0, Len(keys) - 1)

RECURSIVE find_key_or_prev_loop(_, _, _, _)
find_key_or_prev_loop(keys, key, low, high) ==
    IF low = high THEN low
    ELSE LET mid == (low + high + 1) \div 2
         IN  IF At(keys, mid) > key
             THEN find_key_or_prev_loop(keys, key, low, mid - 1)
             ELSE find_key_or_prev_loop(keys, key, mid, high)

\* find_key_or_prev answered by the search for the next key.
find_key_or_prev_as_next(keys, key) == find_key_loop(keys, key, 0, Len(keys) - 1)

find_key_or_prev(keys, key) == find_key_or_prev_loop(keys, key, 0, Len(keys) - 1)

\* slice::binary_search of the standard library, as the leaf code calls it:
\* [ok |-> TRUE, index] for a match, [ok |-> FALSE, index] for the insertion point.
RECURSIVE binary_search_loop(_, _, _, _)
binary_search_loop(keys, key, left, right) ==
    IF left >= right THEN [ok |-> FALSE, index |-> left]
    ELSE LET mid == left + ((right - left) \div 2)
         IN  IF At(keys, mid) < key THEN binary_search_loop(keys, key, mid + 1, right)
             ELSE IF At(keys, mid) > key THEN binary_search_loop(keys, key, left, mid)
             ELSE [ok |-> TRUE, index |-> mid]

binary_search(keys, key) == binary_search_loop(keys, key, 0, Len(keys))

(***************************************************************************)
(* Leaf (leaf.rs).                                                         *)
(***************************************************************************)
LeafNew == [keys |-> <<>>, values |-> <<>>]

LeafUnit(key, value) == [keys |-> <<key>>, values |-> <<value>>]

LeafLen(leaf) == Len(leaf.keys)

LeafIsFull(leaf) == LeafLen(leaf) = LeafSize

LeafHighest(leaf) == At(leaf.keys, LeafLen(leaf) - 1)

\* Leaf::split: the right leaf steals the slots from index half on, but is given
\* the length half; the left leaf keeps length - half slots.
LeafSplit(this) ==
    LET length == LeafLen(this)
        half   == length \div 2
    IN  [left  |-> [keys   |-> SubSeq(this.keys, 1, length - half),
                    values |-> SubSeq(this.values, 1, length - half)],
         right |-> [keys   |-> SubSeq(this.keys, half + 1, half + half),
                    values |-> SubSeq(this.values, half + 1, half + half)]]

LeafInsertUnchecked(leaf, index, key, value) ==
    [keys |-> ArrayInsert(leaf.keys, index, key),
     values |-> ArrayInsert(leaf.values, index, value)]

LeafRemoveUnchecked(leaf, index) ==
    [keys |-> ArrayRemove(leaf.keys, index),
     values |-> ArrayRemove(leaf.values, index)]

LeafGet(leaf, key) ==
    LET r == binary_search(leaf.keys, key)
    IN  IF r.ok THEN Some(At(leaf.values, r.index)) ELSE None

(***************************************************************************)
(* Branch (branch.rs).                                                     *)
(***************************************************************************)
BranchNew(height) == [height |-> height, keys |-> <<>>, children |-> <<>>]

BranchUnit(leaf) == [height |-> 1, keys |-> <<LeafHighest(leaf)>>, children |-> <<leaf>>]

BranchLen(b) == Len(b.keys)

BranchIsEmpty(b) == Len(b.keys) = 0

BranchIsFull(b) == Len(b.keys) = BranchSize

BranchHighest(b) == Last(b.keys)

HasLeaves(b) == b.height = 1

HasBranches(b) == b.height > 1

\* push_key followed by push_branch / push_leaf.
BranchPush(b, key, child) ==
    [b EXCEPT !.keys = Append(@, key), !.children = Append(@, child)]

\* remove_branch / remove_leaf at an index: the key and the child leave together.
BranchRemoveChild(b, index) ==
    [b EXCEPT !.keys = ArrayRemove(@, index), !.children = ArrayRemove(@, index)]

\* insert_branch_pair / insert_leaf_pair.
BranchInsertPair(b, index, lkey, left, rkey, right) ==
    [b EXCEPT !.keys = ArrayInsertPair(@, index, lkey, rkey),
              !.children = ArrayInsertPair(@, index, left, right)]

BranchSplit(b) ==
    LET half == Len(b.keys) \div 2
    IN  [left  |-> [height |-> b.height,
                    keys |-> SubSeq(b.keys, 1, half),
                    children |-> SubSeq(b.children, 1, half)],
         right |-> [height |-> b.height,
                    keys |-> SubSeq(b.keys, half + 1, Len(b.keys)),
                    children |-> SubSeq(b.children, half + 1, Len(b.children))]]

\* The node a path of child indices leads to, from branch b.
RECURSIVE NodeAt(_, _)
NodeAt(b, path) ==
    IF path = <<>> THEN b ELSE NodeAt(At(b.children, Head(path)), Tail(path))

\* Branch b with the node at path replaced (a write through a node pointer).
RECURSIVE ReplaceAt(_, _, _)
ReplaceAt(b, path, node) ==
    IF path = <<>> THEN node
    ELSE [b EXCEPT !.children[Head(path) + 1] = ReplaceAt(@, Tail(path), node)]

RECURSIVE BranchGet(_, _)
BranchGet(b, key) ==
    LET f == find_key(b.keys, key)
    IN  IF ~IsSome(f) THEN None
        ELSE IF b.height > 1 THEN BranchGet(At(b.children, Unwrap(f)), key)
        ELSE LeafGet(At(b.children, Unwrap(f)), key)

(***************************************************************************)
(* PathedPointer (search.rs): the cursor.                                  *)
(***************************************************************************)
NullPtr == [stack |-> <<>>, leaf |-> None, index |-> 0]

IsNull(ptr) == ptr.leaf = None

\* PathedPointer::clear nulls the leaf pointer only.
Clear(ptr) == [ptr EXCEPT !.leaf = None]

Front(s) == SubSeq(s, 1, Len(s) - 1)

LeafOf(tree, ptr) == NodeAt(tree, Unwrap(ptr.leaf))

PtrKey(tree, ptr) ==
    IF IsNull(ptr) THEN None ELSE Some(At(LeafOf(tree, ptr).keys, ptr.index))

PtrValue(tree, ptr) ==
    IF IsNull(ptr) THEN None ELSE Some(At(LeafOf(tree, ptr).values, ptr.index))

\* walk_path: descends from the branch at bpath, pushing a frame per level.
RECURSIVE walk_path(_, _, _, _)
walk_path(tree, bpath, key, stack) ==
    LET branch == NodeAt(tree, bpath)
        f      == find_key(branch.keys, key)
    IN  IF IsSome(f)
        THEN LET index == Unwrap(f)
                 st    == Append(stack, [b |-> bpath, i |-> index])
             IN  IF HasBranches(branch)
                 THEN walk_path(tree, Append(bpath, index), key, st)
                 ELSE [stack |-> st, leaf |-> Some(Append(bpath, index))]
        ELSE [stack |-> stack, leaf |-> None]

path_for(tree, key) == walk_path(tree, <<>>, key, <<>>)

exact_key(tree, key) ==
    LET at(p, r)  == [ok |-> r.ok,
                      ptr |-> [stack |-> p.stack, leaf |-> p.leaf, index |-> r.index]]
        found(p)  == IF IsSome(p.leaf)
                     THEN at(p, binary_search(NodeAt(tree, Unwrap(p.leaf)).keys, key))
                     ELSE [ok |-> FALSE, ptr |-> NullPtr]
    IN  found(path_for(tree, key))

RECURSIVE step_forward_loop(_, _)
step_forward_loop(tree, ptr) ==
    IF ptr.stack = <<>> THEN [ok |-> FALSE, ptr |-> Clear(ptr)]
    ELSE LET top    == Last(ptr.stack)
             rest   == Front(ptr.stack)
             branch == NodeAt(tree, top.b)
             index  == top.i + 1
         IN  IF index < BranchLen(branch)
             THEN LET st == Append(rest, [b |-> top.b, i |-> index])
                  IN  IF HasBranches(branch)
                      THEN step_forward_loop(tree,
                               [ptr EXCEPT !.stack = Append(st, [b |-> Append(top.b, index), i |-> -1])])
                      ELSE [ok |-> TRUE,
                            ptr |-> [stack |-> st, leaf |-> Some(Append(top.b, index)), index |-> 0]]
             ELSE step_forward_loop(tree, [ptr EXCEPT !.stack = rest])

step_forward(tree, ptr) ==
    IF IsNull(ptr) THEN [ok |-> TRUE, ptr |-> ptr]
    ELSE LET p == [ptr EXCEPT !.index = @ + 1]
         IN  IF p.index >= LeafLen(LeafOf(tree, ptr))
             THEN step_forward_loop(tree, p)
             ELSE [ok |-> TRUE, ptr |-> p]

RECURSIVE step_back_loop(_, _)
step_back_loop(tree, ptr) ==
    IF ptr.stack = <<>> THEN [ok |-> FALSE, ptr |-> Clear(ptr)]
    ELSE LET top    == Last(ptr.stack)
             rest   == Front(ptr.stack)
             branch == NodeAt(tree, top.b)
         IN  IF top.i > 0
             THEN LET index == top.i - 1
                      st    == Append(rest, [b |-> top.b, i |-> index])
                  IN  IF HasBranches(branch)
                      THEN LET child == At(branch.children, index)
                           IN  step_back_loop(tree,
                                   [ptr EXCEPT !.stack =
                                       Append(st, [b |-> Append(top.b, index), i |-> BranchLen(child)])])
                      ELSE [ok |-> TRUE,
                            ptr |-> [stack |-> st, leaf |-> Some(Append(top.b, index)),
                                     index |-> LeafLen(At(branch.children, index)) - 1]]
             ELSE step_back_loop(tree, [ptr EXCEPT !.stack = rest])

step_back(tree, ptr) ==
    IF IsNull(ptr) THEN [ok |-> TRUE, ptr |-> ptr]
    ELSE IF ptr.index > 0 THEN [ok |-> TRUE, ptr |-> [ptr EXCEPT !.index = @ - 1]]
    ELSE step_back_loop(tree, ptr)

RECURSIVE lowest_from(_, _, _)
lowest_from(tree, bpath, stack) ==
    LET branch == NodeAt(tree, bpath)
    IN  IF BranchIsEmpty(branch) THEN NullPtr
        ELSE LET st == Append(stack, [b |-> bpath, i |-> 0])
             IN  IF HasBranches(branch) THEN lowest_from(tree, Append(bpath, 0), st)
                 ELSE [stack |-> st, leaf |-> Some(Append(bpath, 0)), index |-> 0]

lowest(tree) == lowest_from(tree, <<>>, <<>>)

RECURSIVE highest_from(_, _, _)
highest_from(tree, bpath, stack) ==
    LET branch == NodeAt(tree, bpath)
    IN  IF BranchIsEmpty(branch) THEN NullPtr
        ELSE LET index == BranchLen(branch) - 1
                 st    == Append(stack, [b |-> bpath, i |-> index])
             IN  IF HasBranches(branch) THEN highest_from(tree, Append(bpath, index), st)
                 ELSE [stack |-> st, leaf |-> Some(Append(bpath, index)),
                       index |-> LeafLen(At(branch.children, index)) - 1]

highest(tree) == highest_from(tree, <<>>, <<>>)

\* `!ptr.step_forward()` / `!ptr.step_back()` answered by the null cursor.
StepOrNull(s) == IF s.ok THEN s.ptr ELSE NullPtr

\* The cursor constructors apply their body to the result p of path_for and
\* to the cursor ptr placed in the leaf p found.
key_or_higher(tree, key) ==
    LET check(ptr) == IF At(LeafOf(tree, ptr).keys, ptr.index) < key
                      THEN StepOrNull(step_forward(tree, ptr))
                      ELSE ptr
        found(p)   == IF IsSome(p.leaf)
                      THEN check([stack |-> p.stack, leaf |-> p.leaf,
                                  index |-> find_key_or_next(
                                                NodeAt(tree, Unwrap(p.leaf)).keys, key)])
                      ELSE NullPtr
    IN  found(path_for(tree, key))

higher_than_key(tree, key) ==
    LET check(ptr) == IF At(LeafOf(tree, ptr).keys, ptr.index) = key
                      THEN StepOrNull(step_forward(tree, ptr))
                      ELSE ptr
        found(p)   == IF IsSome(p.leaf)
                      THEN check([stack |-> p.stack, leaf |-> p.leaf,
                                  index |-> find_key_or_next(
                                                NodeAt(tree, Unwrap(p.leaf)).keys, key)])
                      ELSE NullPtr
    IN  found(path_for(tree, key))

key_or_lower(tree, key) ==
    LET found(p) == IF IsSome(p.leaf)
                    THEN [stack |-> p.stack, leaf |-> p.leaf,
                          index |-> find_key_or_next(
                                        NodeAt(tree, Unwrap(p.leaf)).keys, key)]
                    ELSE highest(tree)
    IN  found(path_for(tree, key))

lower_than_key(tree, key) ==
    LET check(ptr) == IF At(LeafOf(tree, ptr).keys, ptr.index) >= key
                      THEN StepOrNull(step_back(tree, ptr))
                      ELSE ptr
        found(p)   == IF IsSome(p.leaf)
                      THEN check([stack |-> p.stack, leaf |-> p.leaf,
                                  index |-> find_key_or_prev(
                                                NodeAt(tree, Unwrap(p.leaf)).keys, key)])
                      ELSE highest(tree)
    IN  found(path_for(tree, key))

\* PathedPointer::remove: the tree after the removal and the removed pair.
RECURSIVE remove_loop(_, _)

\* remove_loop that stops at the parent of the leaf, emptied or not.
remove_loop_one_level(tree, stack) ==
    IF stack = <<>> THEN tree
    ELSE LET top == Last(stack)
         IN  ReplaceAt(tree, top.b, BranchRemoveChild(NodeAt(tree, top.b), top.i))

remove_loop(tree, stack) ==
    IF stack = <<>> THEN tree
    ELSE LET top == Last(stack)
             b2  == BranchRemoveChild(NodeAt(tree, top.b), top.i)
             t2  == ReplaceAt(tree, top.b, b2)
         IN  IF ~BranchIsEmpty(b2) THEN t2 ELSE remove_loop(t2, Front(stack))

ptr_remove(tree, ptr) ==
    LET lpath == Unwrap(ptr.leaf)
        leaf  == NodeAt(tree, lpath)
        leaf2 == LeafRemoveUnchecked(leaf, ptr.index)
        t1    == ReplaceAt(tree, lpath, leaf2)
    IN  [tree |-> IF LeafLen(leaf2) = 0 THEN remove_loop(t1, ptr.stack) ELSE t1,
         kv   |-> <<At(leaf.keys, ptr.index), At(leaf.values, ptr.index)>>]

\* PathedPointer::insert: [ok, tree, ptr, panic]; ok = FALSE is Err((key, value)).
RECURSIVE insert_loop(_, _, _, _)
insert_loop(tree, ptr, key, value) ==
    IF ptr.stack = <<>> THEN [ok |-> FALSE, tree |-> tree, ptr |-> ptr, panic |-> ""]
    ELSE LET top    == Last(ptr.stack)
             rest   == Front(ptr.stack)
             branch == NodeAt(tree, top.b)
             index  == top.i
             removed_key == At(branch.keys, index)
             removed     == At(branch.children, index)
             \* The leaf w leads to has room: insert at the index r found.
             place(t2, w, leaf, r) ==
                 IF r.ok
                 THEN [ok |-> FALSE, tree |-> t2, ptr |-> ptr,
                       panic |-> "tried to insert() a key that already exists"]
                 ELSE IF r.index > LeafLen(leaf)
                 THEN [ok |-> FALSE, tree |-> t2, ptr |-> ptr, panic |-> "index > len"]
                 ELSE [ok |-> TRUE,
                       tree |-> ReplaceAt(t2, Unwrap(w.leaf),
                                    LeafInsertUnchecked(leaf, r.index, key, value)),
                       ptr |-> [stack |-> w.stack, leaf |-> w.leaf, index |-> r.index],
                       panic |-> ""]
             \* The tree t2 after the split and the path w to the leaf.
             walked(t2, w) ==
                 IF IsSome(w.leaf)
                 THEN LET leaf == NodeAt(t2, Unwrap(w.leaf))
                      IN  IF ~LeafIsFull(leaf)
                          THEN place(t2, w, leaf, binary_search(leaf.keys, key))
                          ELSE insert_loop(t2, [ptr EXCEPT !.stack = w.stack], key, value)
                 ELSE [ok |-> FALSE, tree |-> t2, ptr |-> ptr,
                       panic |-> "walk_path() failed to produce a leaf"]
             replaced(t2, choose_index) ==
                 walked(t2, IF HasBranches(branch)
                            THEN walk_path(t2, Append(top.b, choose_index), key, rest)
                            ELSE [stack |-> rest, leaf |-> Some(Append(top.b, choose_index))])
             \* The halves sp of the removed child and the high key of the left one.
             halves(sp, left_highest) ==
                 replaced(ReplaceAt(tree, top.b,
                              BranchInsertPair(BranchRemoveChild(branch, index), index,
                                               left_highest, sp.left, removed_key, sp.right)),
                          IF key <= left_highest THEN index ELSE index + 1)
             split(sp) ==
                 halves(sp, IF HasBranches(branch) THEN BranchHighest(sp.left)
                            ELSE LeafHighest(sp.left))
         IN  IF BranchIsFull(branch)
             THEN insert_loop(tree, [ptr EXCEPT !.stack = rest], key, value)
             ELSE split(IF HasBranches(branch) THEN BranchSplit(removed)
                        ELSE LeafSplit(removed))

ptr_insert(tree, ptr, key, value) ==
    LET lpath == Unwrap(ptr.leaf)
        leaf  == NodeAt(tree, lpath)
    IN  IF ~LeafIsFull(leaf)
        THEN [ok |-> TRUE,
              tree |-> ReplaceAt(tree, lpath, LeafInsertUnchecked(leaf, ptr.index, key, value)),
              ptr |-> ptr, panic |-> ""]
        ELSE insert_loop(tree, ptr, key, value)

\* PathedPointer::push_last: overwrites the high keys of the right spine with key,
\* then inserts at the end of the rightmost leaf. dbg is FALSE when the
\* debug_assert!(branch.highest() < &key) of a debug build would have failed.
RECURSIVE push_last_loop(_, _, _, _, _)
push_last_loop(tree, bpath, stack, key, dbg) ==
    LET branch == NodeAt(tree, bpath)
        index  == BranchLen(branch) - 1
        d2     == dbg /\ BranchHighest(branch) < key
        t2     == ReplaceAt(tree, bpath, [branch EXCEPT !.keys = SetAt(@, index, key)])
        st     == Append(stack, [b |-> bpath, i |-> index])
    IN  IF HasBranches(branch)
        THEN push_last_loop(t2, Append(bpath, index), st, key, d2)
        ELSE [tree |-> t2, dbg |-> d2,
              ptr |-> [stack |-> st, leaf |-> Some(Append(bpath, index)),
                       index |-> LeafLen(At(branch.children, index))]]

\* The tail of push_last: self.insert(key, value) at the cursor p.ptr the loop left.
push_last_insert(p, key, value) ==
    ptr_insert(p.tree, p.ptr, key, value) @@ [dbg |-> p.dbg]

push_last(tree, key, value) ==
    push_last_insert(push_last_loop(tree, <<>>, <<>>, key, TRUE), key, value)

(***************************************************************************)
(* PalmTree (lib.rs) and the entry API (entry.rs).  A tree is              *)
(* [root |-> Option<Branch>, size |-> usize].                              *)
(***************************************************************************)
TreeNew == [root |-> None, size |-> 0]

\* load::push_stack; the top of the stack is the end of the sequence.
RECURSIVE push_stack(_, _)

\* push_stack whose new parent is two levels above the child.
push_stack_skipping_a_level(child, stack) ==
    LET popped == IF stack = <<>> THEN BranchNew(child.height + 2) ELSE Last(stack)
        rest   == IF stack = <<>> THEN <<>> ELSE Front(stack)
        full   == BranchIsFull(popped)
        rest2  == IF full THEN push_stack(popped, rest) ELSE rest
        parent == IF full THEN BranchNew(popped.height) ELSE popped
    IN  Append(rest2, BranchPush(parent, BranchHighest(child), child))

push_stack(child, stack) ==
    LET popped == IF stack = <<>> THEN BranchNew(child.height + 1) ELSE Last(stack)
        rest   == IF stack = <<>> THEN <<>> ELSE Front(stack)
        full   == BranchIsFull(popped)
        rest2  == IF full THEN push_stack(popped, rest) ELSE rest
        parent == IF full THEN BranchNew(popped.height) ELSE popped
    IN  Append(rest2, BranchPush(parent, BranchHighest(child), child))

\* load_fold with the loop that folds the stack into one root left out.
load_fold_unfolded(stack) == stack

RECURSIVE load_fold(_)
load_fold(stack) ==
    IF Len(stack) > 1 THEN load_fold(push_stack(Last(stack), Front(stack))) ELSE stack

RECURSIVE trim_root_loop(_)
trim_root_loop(b) ==
    IF HasBranches(b) /\ BranchLen(b) = 1 THEN trim_root_loop(Last(b.children)) ELSE b

trim_root(t) ==
    IF IsSome(t.root) THEN [t EXCEPT !.root = Some(trim_root_loop(Unwrap(t.root)))] ELSE t

\* The loop of load over the input, items i to last; st holds the locals
\* size, stack, parent and leaf.
RECURSIVE load_loop(_, _, _, _)

\* The loop of load pushing a leaf into the parent one entry before it is full.
load_loop_flushing_early(input, i, last, st) ==
    IF i > last THEN st
    ELSE LET full    == LeafLen(st.leaf) >= LeafSize - 1
             pfull   == full /\ BranchIsFull(st.parent)
             stack2  == IF pfull THEN push_stack(st.parent, st.stack) ELSE st.stack
             parent2 == IF pfull THEN BranchNew(1) ELSE st.parent
             parent3 == IF full THEN BranchPush(parent2, Last(st.leaf.keys), st.leaf)
                        ELSE st.parent
             leaf2   == IF full THEN LeafNew ELSE st.leaf
             leaf3   == [keys |-> Append(leaf2.keys, input[i][1]),
                         values |-> Append(leaf2.values, input[i][2])]
         IN  load_loop(input, i + 1, last, [size |-> st.size + 1, stack |-> stack2,
                                            parent |-> parent3, leaf |-> leaf3])

load_loop(input, i, last, st) ==
    IF i > last THEN st
    ELSE LET full    == LeafIsFull(st.leaf)
             pfull   == full /\ BranchIsFull(st.parent)
             stack2  == IF pfull THEN push_stack(st.parent, st.stack) ELSE st.stack
             parent2 == IF pfull THEN BranchNew(1) ELSE st.parent
             parent3 == IF full THEN BranchPush(parent2, Last(st.leaf.keys), st.leaf)
                        ELSE st.parent
             leaf2   == IF full THEN LeafNew ELSE st.leaf
             leaf3   == [keys |-> Append(leaf2.keys, input[i][1]),
                         values |-> Append(leaf2.values, input[i][2])]
         IN  load_loop(input, i + 1, last, [size |-> st.size + 1, stack |-> stack2,
                                            parent |-> parent3, leaf |-> leaf3])

\* The same loop taken a run of items at a time, which keeps the depth of
\* the recursion small on long inputs.
RECURSIVE load_runs(_, _, _)
load_runs(input, i, st) ==
    IF i > Len(input) THEN st
    ELSE LET last == IF i + LeafSize - 1 < Len(input) THEN i + LeafSize - 1 ELSE Len(input)
             next(st2) == IF st2.size > 0 THEN load_runs(input, last + 1, st2) ELSE st2
         IN  next(load_loop(input, i, last, st))

\* load: the end of the input applied to the locals l the loop left.
load(input) ==
    LET end(l) ==
            IF l.size = 0 THEN TreeNew
            ELSE LET pfull   == BranchIsFull(l.parent)
                     stack2  == IF pfull THEN push_stack(l.parent, l.stack) ELSE l.stack
                     parent2 == IF pfull THEN BranchNew(1) ELSE l.parent
                     parent3 == BranchPush(parent2, Last(l.leaf.keys), l.leaf)
                     stack3  == load_fold(push_stack(parent3, stack2))
                 IN  trim_root([root |-> Some(Last(stack3)), size |-> l.size])
    IN  end(load_runs(input, 1, [size |-> 0, stack |-> <<>>,
                                 parent |-> BranchNew(1), leaf |-> LeafNew]))

get(t, key) == IF IsSome(t.root) THEN BranchGet(Unwrap(t.root), key) ELSE None

split_root(b) ==
    LET sp == BranchSplit(b)
    IN  BranchPush(BranchPush(BranchNew(b.height + 1), BranchHighest(sp.left), sp.left),
                   BranchHighest(sp.right), sp.right)

\* VacantEntry::insert: [t, panic, dbg, splits], splits counting the calls of
\* split_root.  vacant_insert_result is the match on the result r of the
\* cursor's push_last or insert.
RECURSIVE vacant_insert(_, _, _, _)

\* vacant_insert_result with the size counted again when the insertion is
\* retried after the root split.
vacant_insert_result_recounted(t, key, value, r) ==
    IF r.panic # "" THEN [t |-> [t EXCEPT !.root = Some(r.tree)],
                          panic |-> r.panic, dbg |-> r.dbg, splits |-> 0]
    ELSE IF r.ok THEN [t |-> [root |-> Some(r.tree), size |-> t.size + 1],
                       panic |-> "", dbg |-> r.dbg, splits |-> 0]
    ELSE LET root2 == split_root(r.tree)
             e     == exact_key(root2, key)
             t2    == [t EXCEPT !.root = Some(root2)]
             n     == vacant_insert(t2, e.ptr, key, value)
         IN  [n EXCEPT !.t.size = @ + 1, !.splits = @ + 1]

RECURSIVE vacant_insert_result(_, _, _, _)
vacant_insert_result(t, key, value, r) ==
    IF r.panic # "" THEN [t |-> [t EXCEPT !.root = Some(r.tree)],
                          panic |-> r.panic, dbg |-> r.dbg, splits |-> 0]
    ELSE IF r.ok THEN [t |-> [root |-> Some(r.tree), size |-> t.size + 1],
                       panic |-> "", dbg |-> r.dbg, splits |-> 0]
    ELSE LET root2 == split_root(r.tree)
             e     == exact_key(root2, key)
             t2    == [t EXCEPT !.root = Some(root2)]
         IN  IF e.ok THEN [t |-> t2, panic |-> "unwrap_err on Ok", dbg |-> r.dbg,
                           splits |-> 1]
             ELSE LET n == vacant_insert(t2, e.ptr, key, value)
                  IN  [n EXCEPT !.dbg = @ /\ r.dbg, !.splits = @ + 1]

vacant_insert(t, cursor, key, value) ==
    IF t.size = 0
    THEN [t |-> [root |-> Some(BranchUnit(LeafUnit(key, value))), size |-> 1],
          panic |-> "", dbg |-> TRUE, splits |-> 0]
    ELSE vacant_insert_result(t, key, value,
             IF IsNull(cursor)
             THEN push_last(Unwrap(t.root), key, value)
             ELSE ptr_insert(Unwrap(t.root), cursor, key, value) @@ [dbg |-> TRUE])

\* PalmTree::insert through PalmTree::entry: [t, out, panic, dbg, splits].
insert(t, key, value) ==
    LET entry(e) ==
            IF e.ok
            THEN LET lpath == Unwrap(e.ptr.leaf)
                     leaf  == NodeAt(Unwrap(t.root), lpath)
                 IN  [t |-> [t EXCEPT !.root = Some(ReplaceAt(Unwrap(t.root), lpath,
                                 [leaf EXCEPT !.values = SetAt(@, e.ptr.index, value)]))],
                      out |-> Some(At(leaf.values, e.ptr.index)), panic |-> "", dbg |-> TRUE,
                      splits |-> 0]
            ELSE vacant_insert(t, e.ptr, key, value) @@ [out |-> None]
    IN  entry(IF IsSome(t.root) THEN exact_key(Unwrap(t.root), key)
              ELSE [ok |-> FALSE, ptr |-> NullPtr])

\* PalmTree::remove that leaves the size as it was.
remove_size_kept(t, key) ==
    IF ~IsSome(t.root) THEN [t |-> t, out |-> None]
    ELSE LET removed(r) == [t |-> [root |-> Some(r.tree), size |-> t.size],
                            out |-> Some(r.kv)]
             found(e)   == IF e.ok THEN removed(ptr_remove(Unwrap(t.root), e.ptr))
                           ELSE [t |-> t, out |-> None]
         IN  found(exact_key(Unwrap(t.root), key))

\* PalmTree::remove: [t, out].
remove(t, key) ==
    IF ~IsSome(t.root) THEN [t |-> t, out |-> None]
    ELSE LET removed(r) == [t |-> [root |-> Some(r.tree), size |-> t.size - 1],
                            out |-> Some(r.kv)]
             found(e)   == IF e.ok THEN removed(ptr_remove(Unwrap(t.root), e.ptr))
                           ELSE [t |-> t, out |-> None]
         IN  found(exact_key(Unwrap(t.root), key))

(***************************************************************************)
(* Iterators (iter/mod.rs, iter/ref_iter.rs, iter/mut_iter.rs,             *)
(* iter/owned.rs).  A range bound is <<kind, key>> with kind one of        *)
(* "Included", "Excluded", "Unbounded".                                    *)
(***************************************************************************)
Included(k) == <<"Included", k>>

Excluded(k) == <<"Excluded", k>>

Unbounded == <<"Unbounded", 0>>

\* paths_from_range with the second of its panics alone.
range_panic_descending_only(lo, hi) ==
    IF lo[1] # "Unbounded" /\ hi[1] # "Unbounded" /\ lo[2] > hi[2]
    THEN "PalmTreeIter: range start is greater than range end"
    ELSE ""

\* The two panics that open paths_from_range.
range_panic(lo, hi) ==
    IF lo[1] = "Excluded" /\ hi[1] = "Excluded" /\ lo[2] = hi[2]
    THEN "PalmTreeIter: start and end bounds are equal and excluding each other"
    ELSE IF lo[1] # "Unbounded" /\ hi[1] # "Unbounded" /\ lo[2] > hi[2]
    THEN "PalmTreeIter: range start is greater than range end"
    ELSE ""

\* paths_from_range after its panics: Option<(left, right)>.
paths_from_range(t, lo, hi) ==
    IF IsSome(t.root)
    THEN LET tree == Unwrap(t.root)
             paths(left, right) ==
                 IF IsNull(left) THEN None
                 ELSE IF IsNull(right) THEN None
                 ELSE Some([left |-> left, right |-> right])
         IN  paths(IF lo[1] = "Included" THEN key_or_higher(tree, lo[2])
                   ELSE IF lo[1] = "Excluded" THEN higher_than_key(tree, lo[2])
                   ELSE lowest(tree),
                   IF hi[1] = "Included" THEN key_or_lower(tree, hi[2])
                   ELSE IF hi[1] = "Excluded" THEN lower_than_key(tree, hi[2])
                   ELSE highest(tree))
    ELSE None

IterNull == [left |-> NullPtr, right |-> NullPtr]

\* Iter::new and IterMut::new.
IterNew(t, lo, hi) ==
    LET new(p) == IF IsSome(p) THEN Unwrap(p) ELSE IterNull
    IN  new(paths_from_range(t, lo, hi))

\* Iter::next and IterMut::next: [iter, out, dbg]; dbg is FALSE when the
\* debug_assert!(result) of step_forward would have failed.
IterNext(tree, iter) ==
    LET left_key  == PtrKey(tree, iter.left)
        right_key == PtrKey(tree, iter.right)
    IN  IF ~IsSome(left_key) \/ ~IsSome(right_key)
        THEN [iter |-> iter, out |-> None, dbg |-> TRUE]
        ELSE IF Unwrap(left_key) > Unwrap(right_key)
        THEN [iter |-> [left |-> Clear(iter.left), right |-> Clear(iter.right)],
              out |-> None, dbg |-> TRUE]
        ELSE LET item == <<Unwrap(left_key), Unwrap(PtrValue(tree, iter.left))>>
             IN  IF Unwrap(left_key) = Unwrap(right_key)
                 THEN [iter |-> [left |-> Clear(iter.left), right |-> Clear(iter.right)],
                       out |-> Some(item), dbg |-> TRUE]
                 ELSE LET s == step_forward(tree, iter.left)
                      IN  [iter |-> [iter EXCEPT !.left = s.ptr],
                           out |-> Some(item), dbg |-> s.ok]

\* Iter::next_back and IterMut::next_back.
IterNextBack(tree, iter) ==
    LET left_key  == PtrKey(tree, iter.left)
        right_key == PtrKey(tree, iter.right)
    IN  IF ~IsSome(left_key) \/ ~IsSome(right_key)
        THEN [iter |-> iter, out |-> None, dbg |-> TRUE]
        ELSE IF Unwrap(left_key) > Unwrap(right_key)
        THEN [iter |-> [left |-> Clear(iter.left), right |-> Clear(iter.right)],
              out |-> None, dbg |-> TRUE]
        ELSE LET item == <<Unwrap(right_key), Unwrap(PtrValue(tree, iter.right))>>
             IN  IF Unwrap(left_key) = Unwrap(right_key)
                 THEN [iter |-> [left |-> Clear(iter.left), right |-> Clear(iter.right)],
                       out |-> Some(item), dbg |-> TRUE]
                 ELSE LET s == step_back(tree, iter.right)
                      IN  [iter |-> [iter EXCEPT !.right = s.ptr],
                           out |-> Some(item), dbg |-> s.ok]

\* Iterator::collect over Iter::next: the items up to the first None.
RECURSIVE IterCollect(_, _, _)
IterCollect(tree, iter, acc) ==
    LET collect(n) == IF IsSome(n.out)
                      THEN IterCollect(tree, n.iter, Append(acc, Unwrap(n.out)))
                      ELSE acc
    IN  collect(IterNext(tree, iter))

\* PalmTree::range(..).collect(); the tree is only read when it has a root.
range(t, lo, hi) ==
    IF IsSome(t.root) THEN IterCollect(Unwrap(t.root), IterNew(t, lo, hi), <<>>) ELSE <<>>

\* PalmTree::iter().collect().
iter(t) == range(t, Unbounded, Unbounded)

\* OwnedIter::new, as PalmTree::into_iter calls it.
OwnedIterNew(t) ==
    IF IsSome(t.root)
    THEN [tree |-> t.root, left |-> lowest(Unwrap(t.root)),
          right |-> highest(Unwrap(t.root)), remaining |-> t.size]
    ELSE [tree |-> None, left |-> NullPtr, right |-> NullPtr, remaining |-> t.size]

\* OwnedIter::next: [iter, out].
RECURSIVE OwnedIterNext(_)
OwnedIterNext(o) ==
    IF ~IsSome(o.tree) THEN [iter |-> o, out |-> None]
    ELSE IF IsNull(o.left) THEN [iter |-> o, out |-> None]
    ELSE LET tree  == Unwrap(o.tree)
             lpath == Unwrap(o.left.leaf)
             leaf  == NodeAt(tree, lpath)
         IN  IF LeafLen(leaf) = 0
             THEN OwnedIterNext([o EXCEPT !.left = step_forward(tree, o.left).ptr])
             ELSE [iter |-> [o EXCEPT !.remaining = @ - 1,
                                      !.tree = Some(ReplaceAt(tree, lpath,
                                                   LeafRemoveUnchecked(leaf, 0)))],
                   out |-> Some(<<At(leaf.keys, 0), At(leaf.values, 0)>>)]

\* OwnedIter::size_hint.
OwnedIterSizeHint(o) == <<o.remaining, Some(o.remaining)>>

(***************************************************************************)
(* The reference ordered map of the integration test (tests.rs): a         *)
(* BTreeMap, kept as the ascending sequence of its <<key, value>> pairs.   *)
(***************************************************************************)
NatGet(m, k) ==
    LET hit == SelectSeq(m, LAMBDA e : e[1] = k)
    IN  IF hit = <<>> THEN None ELSE Some(hit[1][2])

NatInsert(m, k, v) ==
    SelectSeq(m, LAMBDA e : e[1] < k) \o <<<<k, v>>>> \o SelectSeq(m, LAMBDA e : e[1] > k)

NatRemove(m, k) == SelectSeq(m, LAMBDA e : e[1] # k)

InBounds(k, lo, hi) ==
    /\ lo[1] = "Included" => k >= lo[2]
    /\ lo[1] = "Excluded" => k > lo[2]
    /\ hi[1] = "Included" => k <= hi[2]
    /\ hi[1] = "Excluded" => k < hi[2]

NatRange(m, lo, hi) == SelectSeq(m, LAMBDA e : InBounds(e[1], lo, hi))

Reverse(s) == [i \in 1..Len(s) |-> s[Len(s) + 1 - i]]

(***************************************************************************)
(* The driver: integration_test of tests.rs.  A construction is followed   *)
(* by actions, each applied to the tree and to the reference map; ret      *)
(* holds what the last call returned next to what the reference returned.  *)
(***************************************************************************)
MaxLoad == LeafSize * BranchSize + 1

\* The input of Construct::Load: keys 2, 4, .., 2n, each with its own value.
LoadInput(n) == [i \in 1..n |-> <<2 * i, 2 * i + 100>>]

\* Lengths that give no root, one leaf, one full leaf, a full root of full
\* leaves, and a tree of height two.
LoadLens == {0, 1, LeafSize, LeafSize * BranchSize, MaxLoad}

\* Keys the actions use: the last leaf of the first full branch, and one key
\* between two of them.
OpKeys == {26, 27, 28, 30, 32}

OpValues == {0}

RangeKeys == {26, 27}

StartBounds == {Unbounded} \cup {Included(k) : k \in RangeKeys}

EndBounds == {Unbounded} \cup {Excluded(k) : k \in RangeKeys} \cup {Included(k) : k \in RangeKeys}

Tree == [root |-> root, size |-> size]

NoRet == [op |-> "none", arg |-> <<>>, out |-> <<>>, expect |-> <<>>, len0 |-> 0,
          dbg |-> TRUE, panic |-> ""]

NoIter == [kind |-> "none"]

Init ==
    /\ \E n \in LoadLens :
          /\ \E t \in {load(LoadInput(n))} :
                /\ root = t.root
                /\ size = t.size
          /\ nat = LoadInput(n)
    /\ pc = "idle"
    /\ ret = NoRet
    /\ it = NoIter

Done(panic) == IF panic = "" THEN "done" ELSE "panic"

\* Action::Insert
Insert(key, value) ==
    /\ pc = "idle"
    /\ \E r \in {insert(Tree, key, value)} :
           /\ root' = r.t.root
           /\ size' = r.t.size
           /\ ret' = [op |-> "insert", arg |-> <<key, value>>, out |-> r.out,
                      expect |-> NatGet(nat, key), len0 |-> size,
                      dbg |-> r.dbg, panic |-> r.panic]
           /\ pc' = Done(r.panic)
    /\ nat' = NatInsert(nat, key, value)
    /\ UNCHANGED it

\* Action::Remove
Remove(key) ==
    /\ pc = "idle"
    /\ \E r \in {remove(Tree, key)} :
           /\ root' = r.t.root
           /\ size' = r.t.size
           /\ ret' = [op |-> "remove", arg |-> <<key>>, out |-> r.out,
                      expect |-> IF IsSome(NatGet(nat, key))
                                 THEN Some(<<key, Unwrap(NatGet(nat, key))>>) ELSE None,
                      len0 |-> size, dbg |-> TRUE, panic |-> ""]
    /\ pc' = "done"
    /\ nat' = NatRemove(nat, key)
    /\ UNCHANGED it

\* Action::Lookup
Lookup(key) ==
    /\ pc = "idle"
    /\ ret' = [op |-> "get", arg |-> <<key>>, out |-> get(Tree, key),
               expect |-> NatGet(nat, key), len0 |-> size, dbg |-> TRUE, panic |-> ""]
    /\ pc' = "done"
    /\ UNCHANGED <<root, size, nat, it>>

\* Action::Range and Action::RangeMut, with every kind of bound.
Range(lo, hi) ==
    /\ pc = "idle"
    /\ LET p == range_panic(lo, hi)
       IN  /\ ret' = [op |-> "range", arg |-> <<lo, hi>>,
                      out |-> IF p = "" THEN range(Tree, lo, hi) ELSE <<>>,
                      expect |-> NatRange(nat, lo, hi), len0 |-> size,
                      dbg |-> TRUE, panic |-> p]
           /\ pc' = Done(p)
    /\ UNCHANGED <<root, size, nat, it>>

\* OwnedIter consumed with next, as Iterator::collect does.
RECURSIVE OwnedIterCollect(_, _)
OwnedIterCollect(o, acc) ==
    LET collect(n) == IF IsSome(n.out)
                      THEN OwnedIterCollect(n.iter, Append(acc, Unwrap(n.out)))
                      ELSE acc
    IN  collect(OwnedIterNext(o))

into_iter(t) == OwnedIterCollect(OwnedIterNew(t), <<>>)

\* The assert_eq! calls of integration_test on the last action and on the
\* tree it left.
TestPasses ==
    /\ ret.op = "get" => ret.out = ret.expect
    /\ ret.op = "range" => ret.out = ret.expect
    /\ ret.op = "remove" /\ IsSome(ret.out) => ret.out = ret.expect
    /\ size = Len(nat)
    /\ iter(Tree) = nat
    /\ into_iter(Tree) = nat

\* The end of the loop body of integration_test: the test goes on to the
\* next action, or panics on the first difference from the reference map.
Check ==
    /\ pc = "done"
    /\ \E passes \in {TestPasses} :
           /\ pc' = IF passes THEN "idle" ELSE "panic"
           /\ ret' = IF passes THEN NoRet ELSE [ret EXCEPT !.panic = "assertion failed"]
    /\ UNCHANGED <<root, size, nat, it>>

Next ==
    \/ \E key \in OpKeys, value \in OpValues : Insert(key, value)
    \/ \E key \in OpKeys : Remove(key)
    \/ \E key \in OpKeys : Lookup(key)
    \/ \E lo \in StartBounds, hi \in EndBounds : Range(lo, hi)
    \/ Check

Spec == Init /\ [][Next]_vars

(***************************************************************************)
(* Properties of the map operations, stated for every tree the driver      *)
(* reaches and every argument drawn from ProbeKeys.                        *)
(***************************************************************************)
\* Every key a construction loads, every key an action uses, and one key
\* below and one above all of them.
ProbeKeys == {e[1] : e \in {LoadInput(MaxLoad)[i] : i \in 1..MaxLoad}} \cup OpKeys
                 \cup {0, 2 * MaxLoad + 1}

IsAscending(s) == \A i \in 1..(Len(s) - 1) : s[i][1] < s[i + 1][1]

\* C1: after a construction and after every insert and remove, len() equals
\* the length of the reference map and iter() yields the reference map's
\* pairs in ascending key order.
C1_LenAndIterEqualReference ==
    /\ size = Len(nat)
    /\ iter(Tree) = nat
    /\ size = Len(iter(Tree))

\* C2: get(k) is Some(v) exactly when the last operation on k was an insert
\* of v (or the construction loaded (k, v)) with no remove of k after it,
\* which is what the reference map holds for k.
C2_GetAgreesWithLastInsertOrRemove ==
    \A k \in ProbeKeys : get(Tree, k) = NatGet(nat, k)

\* C3: insert(k, v) returns the old value and keeps len when k was present,
\* returns None and adds one to len when k was absent; afterwards the tree
\* holds one entry for k, with value v, and every other entry as before.
C3_InsertReturnsOldValueAndKeepsOthers ==
    \A k \in OpKeys, v \in OpValues :
        LET r      == insert(Tree, k, v)
            before == iter(Tree)
            old    == NatGet(nat, k)
        IN  /\ r.panic = ""
            /\ r.out = old
            /\ r.t.size = size + (IF IsSome(old) THEN 0 ELSE 1)
            /\ iter(r.t) = NatInsert(before, k, v)
            /\ get(r.t, k) = Some(v)

\* C4: remove(k) returns Some((k, v)) and takes one from len when k is
\* present with value v; when k is absent it returns None and leaves len and
\* the iterated contents alone; a second remove(k) returns None.
C4_RemoveReturnsEntryOnce ==
    \A k \in OpKeys :
        LET r      == remove(Tree, k)
            before == iter(Tree)
            old    == NatGet(nat, k)
        IN  /\ IsSome(old) => /\ r.out = Some(<<k, Unwrap(old)>>)
                              /\ r.t.size = size - 1
                              /\ iter(r.t) = NatRemove(before, k)
            /\ ~IsSome(old) => /\ r.out = None
                               /\ r.t.size = size
                               /\ iter(r.t) = before
            /\ remove(r.t, k).out = None

\* C5: for all bounds a <= b, range(a..b), range(a..), range(..b) and
\* range(..) yield the entries the reference map yields for the same range,
\* in ascending order; range(a..a) is empty.
C5_HalfOpenRangesEqualReference ==
    /\ range(Tree, Unbounded, Unbounded) = nat
    /\ \A a \in ProbeKeys :
          /\ range(Tree, Included(a), Unbounded) = NatRange(nat, Included(a), Unbounded)
          /\ range(Tree, Unbounded, Excluded(a)) = NatRange(nat, Unbounded, Excluded(a))
          /\ range(Tree, Included(a), Excluded(a)) = <<>>
          /\ \A b \in OpKeys :
                a <= b => range(Tree, Included(a), Excluded(b))
                              = NatRange(nat, Included(a), Excluded(b))

\* The key a cursor stands on, None for a null cursor.
CursorKey(t, ptr) == IF IsSome(t.root) THEN PtrKey(Unwrap(t.root), ptr) ELSE None

\* The greatest key of m that is <= k, and the least key of m that is > k.
NatKeyOrLower(m, k) ==
    LET s == SelectSeq(m, LAMBDA e : e[1] <= k)
    IN  IF s = <<>> THEN None ELSE Some(Last(s)[1])

NatHigherThanKey(m, k) ==
    LET s == SelectSeq(m, LAMBDA e : e[1] > k)
    IN  IF s = <<>> THEN None ELSE Some(s[1][1])

\* C6: a range with an inclusive end bound k yields only entries with key
\* <= k, and all of them that satisfy the start bound; the cursor of
\* key_or_lower stands on k if present, otherwise on the greatest key lower
\* than k, and is null if no key is <= k.
C6_InclusiveEndStopsAtKeyOrLower ==
    \A k \in ProbeKeys :
        /\ range(Tree, Unbounded, Included(k)) = NatRange(nat, Unbounded, Included(k))
        /\ \A a \in OpKeys :
              a <= k => range(Tree, Included(a), Included(k))
                            = NatRange(nat, Included(a), Included(k))
        /\ IsSome(root) =>
              CursorKey(Tree, key_or_lower(Unwrap(root), k)) = NatKeyOrLower(nat, k)

\* C7: higher_than_key(root, k) stands on the least stored key strictly
\* greater than k, or is null if there is none; a range with an excluded
\* start bound k never yields a key <= k.
C7_ExcludedStartIsStrictSuccessor ==
    \A k \in ProbeKeys :
        /\ IsSome(root) =>
              CursorKey(Tree, higher_than_key(Unwrap(root), k)) = NatHigherThanKey(nat, k)
        /\ \A i \in 1..Len(range(Tree, Excluded(k), Unbounded)) :
              range(Tree, Excluded(k), Unbounded)[i][1] > k

\* The size_hint() before each call of next() on an owned iterator, the
\* call that returns None included.
RECURSIVE OwnedIterHints(_, _)
OwnedIterHints(o, acc) ==
    LET n == OwnedIterNext(o)
        h == Append(acc, OwnedIterSizeHint(o))
    IN  IF IsSome(n.out) THEN OwnedIterHints(n.iter, h) ELSE h

\* C10: into_iter() consumed with next() yields the tree's pairs in
\* ascending order and then None, and size_hint() is (r, Some(r)) at every
\* point, r being the number of pairs not yet yielded.
C10_IntoIterYieldsAllWithExactSizeHint ==
    LET items == into_iter(Tree)
        hints == OwnedIterHints(OwnedIterNew(Tree), <<>>)
    IN  /\ items = nat
        /\ IsAscending(items)
        /\ \A i \in 1..Len(hints) :
              hints[i] = <<Len(items) - (i - 1), Some(Len(items) - (i - 1))>>

(***************************************************************************)
(* Bulk load (lib.rs load), over ascending streams of every length up to   *)
(* MaxLoadLen and three spacings of the keys.                              *)
(***************************************************************************)
MaxLoadLen == 85

\* Strictly ascending key sequences: consecutive, even, and squares.
StreamKey(shape, i) ==
    IF shape = "consecutive" THEN i ELSE IF shape = "even" THEN 2 * i ELSE i * i

StreamShapes == {"consecutive", "even", "squares"}

Stream(shape, n) == [i \in 1..n |-> <<StreamKey(shape, i), 1000 + StreamKey(shape, i)>>]

LoadKeys == {4, 5, 16, 17}

InitLoad ==
    /\ root = None
    /\ size = 0
    /\ nat = <<>>
    /\ pc = "new"
    /\ ret = NoRet
    /\ it = NoIter

\* PalmTree::load(input)
Load(input) ==
    /\ pc = "new"
    /\ root' = load(input).root
    /\ size' = load(input).size
    /\ nat' = input
    /\ ret' = [NoRet EXCEPT !.op = "load", !.arg = <<Len(input)>>]
    /\ pc' = "done"
    /\ UNCHANGED it

NextLoad ==
    \/ \E shape \in StreamShapes, n \in 0..MaxLoadLen : Load(Stream(shape, n))
    \/ \E key \in LoadKeys : Lookup(key)
    \/ Check

SpecLoad == InitLoad /\ [][NextLoad]_vars

\* Keys next to the keys of the input that the input does not hold.
AbsentKeys(input) ==
    ({0} \cup {input[i][1] - 1 : i \in 1..Len(input)} \cup {input[i][1] + 1 : i \in 1..Len(input)})
        \ {input[i][1] : i \in 1..Len(input)}

\* C8: load of a strictly ascending stream returns a tree whose len is the
\* number of input pairs, where get(k) is Some(v) for every input pair
\* (k, v) and None for a key not in the input, and whose iteration is the
\* input; an empty stream gives a tree with no root and size 0.
C8_LoadHoldsExactlyTheInput ==
    (pc = "done" /\ ret.op = "load") =>
        /\ size = Len(nat)
        /\ \A i \in 1..Len(nat) : get(Tree, nat[i][1]) = Some(nat[i][2])
        /\ \A k \in AbsentKeys(nat) : get(Tree, k) = None
        /\ iter(Tree) = nat
        /\ nat = <<>> => (root = None /\ size = 0)

\* A load of the longest stream, which needs a root of height three.
C8_Witness ==
    /\ pc = "done"
    /\ ret.op = "load"
    /\ Len(nat) = MaxLoadLen
    /\ IsSome(root)
    /\ Unwrap(root).height = 3

(***************************************************************************)
(* Double-ended iteration (iter/ref_iter.rs; iter/mut_iter.rs is the same  *)
(* code over mutable references): an iterator is opened over a range of a  *)
(* tree and next() and next_back() are called in any order.                *)
(***************************************************************************)
\* The tree and the reference map after removing the keys of ks in turn.
RECURSIVE Removed(_, _, _)
Removed(t, m, ks) ==
    IF ks = <<>> THEN [t |-> t, nat |-> m]
    ELSE Removed(remove(t, ks[1]).t, NatRemove(m, ks[1]), SubSeq(ks, 2, Len(ks)))

\* Trees to iterate: no root, one entry, two leaves, height two, a leaf that
\* lost its highest key, and a height-two tree that lost the last leaf of
\* its first branch.
IterCases ==
    {[t |-> load(LoadInput(n)), nat |-> LoadInput(n)] : n \in {0, 1, LeafSize + 1, MaxLoad}}
        \cup {Removed(load(LoadInput(LeafSize + 1)), LoadInput(LeafSize + 1), <<8>>),
              Removed(load(LoadInput(MaxLoad)), LoadInput(MaxLoad), <<26, 28, 30, 32>>)}

IterKeys == {7, 8, 26}

IterBounds == {Unbounded} \cup {Included(k) : k \in IterKeys} \cup {Excluded(k) : k \in IterKeys}

InitIter ==
    /\ \E c \in IterCases, lo \in IterBounds, hi \in IterBounds :
          /\ range_panic(lo, hi) = ""
          /\ root = c.t.root
          /\ size = c.t.size
          /\ nat = c.nat
          /\ it = [kind |-> "iter", lo |-> lo, hi |-> hi, iter |-> IterNew(c.t, lo, hi),
                   front |-> <<>>, back |-> <<>>, ended |-> FALSE, late |-> FALSE]
    /\ pc = "iter"
    /\ ret = NoRet

\* One call on the open iterator; r is what it returned.
IterCalled(op, r, atFront) ==
    /\ it' = [it EXCEPT !.iter = r.iter,
                        !.front = IF atFront /\ IsSome(r.out) THEN Append(@, Unwrap(r.out)) ELSE @,
                        !.back = IF ~atFront /\ IsSome(r.out) THEN Append(@, Unwrap(r.out)) ELSE @,
                        !.ended = @ \/ ~IsSome(r.out),
                        !.late = @ \/ (it.ended /\ IsSome(r.out))]
    /\ ret' = [NoRet EXCEPT !.op = op, !.out = r.out, !.dbg = r.dbg]
    /\ UNCHANGED <<root, size, nat, pc>>

\* Iter::next / IterMut::next
IterStepNext ==
    /\ pc = "iter"
    /\ IterCalled("next",
                  IF IsSome(root) THEN IterNext(Unwrap(root), it.iter)
                  ELSE [iter |-> it.iter, out |-> None, dbg |-> TRUE], TRUE)

\* Iter::next_back / IterMut::next_back
IterStepNextBack ==
    /\ pc = "iter"
    /\ IterCalled("next_back",
                  IF IsSome(root) THEN IterNextBack(Unwrap(root), it.iter)
                  ELSE [iter |-> it.iter, out |-> None, dbg |-> TRUE], FALSE)

NextIter == IterStepNext \/ IterStepNextBack

SpecIter == InitIter /\ [][NextIter]_vars

\* C9: under every interleaving of next() and next_back() each entry of the
\* range is yielded once, ascending from the front and descending from the
\* back, with no overlap and no gap where the two ends meet; after that both
\* cursors are cleared and every further call returns None.
C9_BothEndsYieldTheRangeOnce ==
    LET expected == NatRange(nat, it.lo, it.hi)
        yielded  == Len(it.front) + Len(it.back)
    IN  /\ yielded <= Len(expected)
        /\ it.front = SubSeq(expected, 1, Len(it.front))
        /\ it.back = Reverse(SubSeq(expected, Len(expected) - Len(it.back) + 1, Len(expected)))
        /\ it.ended => yielded = Len(expected)
        /\ (it.ended \/ (yielded = Len(expected) /\ yielded > 0)) =>
               (IsNull(it.iter.left) /\ IsNull(it.iter.right))
        /\ ~it.late

(***************************************************************************)
(* The owning iterator from both ends (iter/owned.rs).  next() is taken as *)
(* one step; next_back() is followed through its loop, one iteration per   *)
(* step, from the call (pc = "next_back") to its return (pc = "owned").    *)
(***************************************************************************)
\* One iteration of the loop of OwnedIter::next_back: [iter, out, returned].
\* An empty right leaf steps the LEFT cursor back and goes round again.
OwnedIterNextBackLoop(o) ==
    IF IsNull(o.right) THEN [iter |-> o, out |-> None, returned |-> TRUE]
    ELSE LET tree  == Unwrap(o.tree)
             lpath == Unwrap(o.right.leaf)
             leaf  == NodeAt(tree, lpath)
             last  == LeafLen(leaf) - 1
         IN  IF LeafLen(leaf) = 0
             THEN [iter |-> [o EXCEPT !.left = step_back(tree, o.left).ptr],
                   out |-> None, returned |-> FALSE]
             ELSE [iter |-> [o EXCEPT !.remaining = @ - 1,
                                      !.tree = Some(ReplaceAt(tree, lpath,
                                                   LeafRemoveUnchecked(leaf, last)))],
                   out |-> Some(<<At(leaf.keys, last), At(leaf.values, last)>>),
                   returned |-> TRUE]

\* Trees to consume: the constructions of the driver and the trees of
\* IterCases.
OwnedCases ==
    IterCases \cup {[t |-> load(LoadInput(n)), nat |-> LoadInput(n)] : n \in LoadLens}

InitOwned ==
    /\ \E c \in OwnedCases :
          /\ root = c.t.root
          /\ size = c.t.size
          /\ nat = c.nat
          /\ it = [kind |-> "owned", iter |-> OwnedIterNew(c.t), front |-> <<>>, back |-> <<>>]
    /\ pc = "owned"
    /\ ret = NoRet

\* OwnedIter::next, called between two calls of next_back.
OwnedNext ==
    /\ pc = "owned"
    /\ \E r \in {OwnedIterNext(it.iter)} :
           /\ it' = [it EXCEPT !.iter = r.iter,
                               !.front = IF IsSome(r.out) THEN Append(@, Unwrap(r.out)) ELSE @]
           /\ ret' = [NoRet EXCEPT !.op = "next", !.out = r.out]
    /\ UNCHANGED <<root, size, nat, pc>>

\* The call of OwnedIter::next_back: returns None at once without a tree,
\* enters the loop otherwise.
OwnedNextBackCall ==
    /\ pc = "owned"
    /\ pc' = IF IsSome(it.iter.tree) THEN "next_back" ELSE "owned"
    /\ ret' = [NoRet EXCEPT !.op = "next_back"]
    /\ UNCHANGED <<root, size, nat, it>>

\* One iteration of the loop of next_back.
OwnedNextBackLoop ==
    /\ pc = "next_back"
    /\ \E r \in {OwnedIterNextBackLoop(it.iter)} :
           /\ it' = [it EXCEPT !.iter = r.iter,
                               !.back = IF IsSome(r.out) THEN Append(@, Unwrap(r.out)) ELSE @]
           /\ ret' = [ret EXCEPT !.out = r.out]
           /\ pc' = IF r.returned THEN "owned" ELSE "next_back"
    /\ UNCHANGED <<root, size, nat>>

NextOwned == OwnedNext \/ OwnedNextBackCall \/ OwnedNextBackLoop

\* The loop of next_back keeps running while the call has not returned.
SpecOwned == InitOwned /\ [][NextOwned]_vars /\ WF_vars(OwnedNextBackLoop)

\* C11: every call of next_back() on the owning iterator returns: a call
\* that finds its right leaf emptied moves on to the previous leaf and
\* yields from it, or returns None when no pair is left.
C11_NextBackReturns == (pc = "next_back") ~> (pc = "owned")

(***************************************************************************)
(* Structure of the tree: the leaf slots read from left to right.          *)
(***************************************************************************)
\* The pairs held in the leaf slots under node n, leaf by leaf, slot by slot;
\* height is the height of n, 0 for a leaf.
RECURSIVE LeafSlots(_, _)
LeafSlots(n, height) ==
    IF height = 0 THEN [i \in 1..Len(n.keys) |-> <<n.keys[i], n.values[i]>>]
    ELSE LET RECURSIVE over(_)
             over(i) == IF i > Len(n.children) THEN <<>>
                        ELSE LeafSlots(n.children[i], height - 1) \o over(i + 1)
         IN  over(1)

TreeSlots(t) == IF IsSome(t.root) THEN LeafSlots(Unwrap(t.root), Unwrap(t.root).height) ELSE <<>>

\* C12: the keys in the leaf slots, read leaf by leaf from left to right,
\* are strictly increasing, so no key is in two slots.
C12_LeafSlotsStrictlyIncreasing == IsAscending(TreeSlots(Tree))

entry(t, key) ==
    LET found(e) == [occupied |-> e.ok, cursor |-> e.ptr]
    IN  found(IF IsSome(t.root) THEN exact_key(Unwrap(t.root), key)
              ELSE [ok |-> FALSE, ptr |-> NullPtr])

\* OccupiedEntry::remove_entry: [t, kv].
occupied_remove_entry(t, cursor) ==
    LET removed(r) == [t |-> [root |-> Some(r.tree), size |-> t.size - 1], kv |-> r.kv]
    IN  removed(ptr_remove(Unwrap(t.root), cursor))

\* OccupiedEntry::remove
occupied_remove(t, cursor) ==
    LET value(r) == [t |-> r.t, out |-> r.kv[2]]
    IN  value(occupied_remove_entry(t, cursor))

\* s without its i-th element.
Without(s, i) == SubSeq(s, 1, i - 1) \o SubSeq(s, i + 1, Len(s))

\* C14: entry(k) is Occupied exactly when the map holds k (as the reference
\* map tells), and removing through an Occupied entry returns the value
\* stored for k, takes exactly the slot of k out of the tree and lowers len
\* by one.
C14_EntryOccupiedIffStored ==
    \A k \in OpKeys : \A e \in {entry(Tree, k)} :
        /\ e.occupied <=> IsSome(NatGet(nat, k))
        /\ e.occupied =>
              \A r \in {occupied_remove(Tree, e.cursor)} :
                  /\ Some(r.out) = NatGet(nat, k)
                  /\ r.t.size = size - 1
                  /\ \E i \in 1..Len(TreeSlots(Tree)) :
                        /\ TreeSlots(Tree)[i] = <<k, r.out>>
                        /\ TreeSlots(r.t) = Without(TreeSlots(Tree), i)

(***************************************************************************)
(* Merging (iter/merge.rs, lib.rs).  The two input iterators are the       *)
(* sequences the owning iterators of the two trees yield; a MergeIter is   *)
(* [left, right, next_left, next_right, next] with left and right the      *)
(* items not yet pulled.                                                    *)
(***************************************************************************)
\* The compare closures of merge_left_from (left > right) and
\* merge_right_from (left >= right), on the keys of two pairs.
merge_compare(side, l, r) == IF side = "left" THEN l[1] > r[1] ELSE l[1] >= r[1]

\* The equal closure of both.
merge_equal(l, r) == l[1] = r[1]

\* Iterator::next on an input: [item, rest].
Pull(s) == IF s = <<>> THEN [item |-> None, rest |-> <<>>]
           ELSE [item |-> Some(Head(s)), rest |-> Tail(s)]

choose_next(side, left, right) ==
    IF IsSome(left) /\ IsSome(right) /\ merge_compare(side, Unwrap(left), Unwrap(right))
    THEN "Right"
    ELSE IF ~IsSome(left) /\ IsSome(right) THEN "Right"
    ELSE "Left"

\* check_eq with the dropping of the item on the other side left out.
check_eq_kept(m) == m

check_eq(m) ==
    IF IsSome(m.next_left) /\ IsSome(m.next_right)
       /\ merge_equal(Unwrap(m.next_left), Unwrap(m.next_right))
    THEN IF m.next = "Left"
         THEN [m EXCEPT !.next_right = Pull(m.right).item, !.right = Pull(m.right).rest]
         ELSE [m EXCEPT !.next_left = Pull(m.left).item, !.left = Pull(m.left).rest]
    ELSE m

\* MergeIter::merge
merge(side, left, right) ==
    check_eq([left |-> Pull(left).rest, right |-> Pull(right).rest,
              next_left |-> Pull(left).item, next_right |-> Pull(right).item,
              next |-> choose_next(side, Pull(left).item, Pull(right).item)])

\* MergeIter::next: [iter, out].
merge_next(side, m) ==
    LET pulled(m2) ==
            check_eq([m2 EXCEPT !.next = choose_next(side, m2.next_left, m2.next_right)])
    IN  IF m.next = "Left"
        THEN [out  |-> m.next_left,
              iter |-> pulled([m EXCEPT !.next_left = Pull(m.left).item,
                                        !.left = Pull(m.left).rest])]
        ELSE [out  |-> m.next_right,
              iter |-> pulled([m EXCEPT !.next_right = Pull(m.right).item,
                                        !.right = Pull(m.right).rest])]

\* The items a MergeIter yields up to its first None, as load consumes it.
RECURSIVE MergeCollect(_, _, _)
MergeCollect(side, m, acc) ==
    LET collect(n) == IF IsSome(n.out)
                      THEN MergeCollect(side, n.iter, Append(acc, Unwrap(n.out)))
                      ELSE acc
    IN  collect(merge_next(side, m))

\* PalmTree::merge_left_iter / merge_right_iter
merge_iter(side, left, right) ==
    MergeCollect(side, merge(side, into_iter(left), into_iter(right)), <<>>)

\* PalmTree::merge_left
merge_left(left, right) == load(merge_iter("left", left, right))

\* PalmTree::merge_right
merge_right(left, right) == load(merge_iter("right", left, right))

\* Keys of the trees merged: every subset of 1..MaxMergeKey on each side.
MaxMergeKey == 5

\* The ascending sequence of the pairs <<k, tag + k>> for the keys k of ks.
RECURSIVE MergeInput(_, _)
MergeInput(ks, tag) ==
    IF ks = {} THEN <<>>
    ELSE LET k == CHOOSE x \in ks : \A y \in ks : x <= y
         IN  <<<<k, tag + k>>>> \o MergeInput(ks \ {k}, tag)

\* The reference map m after inserting the pairs of s in turn.
RECURSIVE NatExtend(_, _)
NatExtend(m, s) ==
    IF s = <<>> THEN m ELSE NatExtend(NatInsert(m, s[1][1], s[1][2]), Tail(s))

InitMerge ==
    /\ \E lks \in SUBSET (1..MaxMergeKey), rks \in SUBSET (1..MaxMergeKey) :
          it = [kind |-> "merge", left |-> MergeInput(lks, 100), right |-> MergeInput(rks, 200)]
    /\ root = None
    /\ size = 0
    /\ nat = <<>>
    /\ pc = "new"
    /\ ret = NoRet

\* PalmTree::merge_left(left, right) / merge_right(left, right) of the trees
\* loaded from the two inputs; nat is the two inputs put in one map, the
\* right one last.
Merge(side) ==
    /\ pc = "new"
    /\ \E t \in {IF side = "left" THEN merge_left(load(it.left), load(it.right))
                 ELSE merge_right(load(it.left), load(it.right))} :
           /\ root' = t.root
           /\ size' = t.size
    /\ nat' = NatExtend(it.left, it.right)
    /\ ret' = [NoRet EXCEPT !.op = "merge_" \o side]
    /\ pc' = "done"
    /\ UNCHANGED it

NextMerge == Merge("left") \/ Merge("right")

SpecMerge == InitMerge /\ [][NextMerge]_vars

\* The keys of a sequence of pairs.
KeysOf(s) == {s[i][1] : i \in 1..Len(s)}

\* The merged tree holds exactly the union of the keys, ascending, each once.
MergedKeysAreTheUnion ==
    /\ IsAscending(TreeSlots(Tree))
    /\ iter(Tree) = TreeSlots(Tree)
    /\ KeysOf(TreeSlots(Tree)) = KeysOf(it.left) \cup KeysOf(it.right)
    /\ size = Len(TreeSlots(Tree))

\* C15 as stated: the merged keys are the union of both key sets, each once
\* and ascending, and for a key in both inputs merge_left keeps the value of
\* the right input and merge_right the value of the left input.
C15_MergeLeftKeepsRightValue ==
    pc = "done" =>
        /\ MergedKeysAreTheUnion
        /\ ret.op = "merge_left" => iter(Tree) = NatExtend(it.left, it.right)
        /\ ret.op = "merge_right" => iter(Tree) = NatExtend(it.right, it.left)

\* C15 amended: the merged keys are the union of both key sets, each once
\* and ascending, and for a key in both inputs merge_left keeps the value of
\* the left input and merge_right the value of the right input.
C15_MergeLeftKeepsLeftValue ==
    pc = "done" =>
        /\ MergedKeysAreTheUnion
        /\ ret.op = "merge_left" => iter(Tree) = NatExtend(it.right, it.left)
        /\ ret.op = "merge_right" => iter(Tree) = NatExtend(it.left, it.right)

\* A merge_left of two trees that share keys and each hold a key the other
\* lacks, giving a tree of more than one leaf.
C15_Witness ==
    /\ pc = "done"
    /\ ret.op = "merge_left"
    /\ KeysOf(it.left) \cap KeysOf(it.right) # {}
    /\ KeysOf(it.left) \ KeysOf(it.right) # {}
    /\ KeysOf(it.right) \ KeysOf(it.left) # {}
    /\ size > LeafSize

(***************************************************************************)
(* Removing at the ends (lib.rs).                                          *)
(***************************************************************************)
\* PalmTree::remove_lowest: [t, out].
remove_lowest(t) ==
    LET removed(r) == [t |-> [root |-> Some(r.tree), size |-> t.size - 1],
                       out |-> Some(r.kv)]
    IN  IF t.size = 0 THEN [t |-> t, out |-> None]
        ELSE IF ~IsSome(t.root) THEN [t |-> t, out |-> None]
        ELSE removed(ptr_remove(Unwrap(t.root), lowest(Unwrap(t.root))))

\* PalmTree::remove_highest: [t, out].
remove_highest(t) ==
    LET removed(r) == [t |-> [root |-> Some(r.tree), size |-> t.size - 1],
                       out |-> Some(r.kv)]
    IN  IF t.size = 0 THEN [t |-> t, out |-> None]
        ELSE IF ~IsSome(t.root) THEN [t |-> t, out |-> None]
        ELSE removed(ptr_remove(Unwrap(t.root), highest(Unwrap(t.root))))

\* C16: on a tree that holds entries remove_lowest (remove_highest) returns
\* the pair with the smallest (largest) key of the map, takes it out and
\* lowers len by one; on a tree with len 0, with or without a root, both
\* return None and leave the tree as it is.
C16_RemoveAtTheEnds ==
    \A lo \in {remove_lowest(Tree)}, hi \in {remove_highest(Tree)} :
        IF size = 0
        THEN /\ lo = [t |-> Tree, out |-> None]
             /\ hi = [t |-> Tree, out |-> None]
        ELSE /\ lo.out = Some(Head(nat))
             /\ lo.t.size = size - 1
             /\ get(lo.t, Head(nat)[1]) = None
             /\ hi.out = Some(Last(nat))
             /\ hi.t.size = size - 1
             /\ get(hi.t, Last(nat)[1]) = None

(***************************************************************************)
(* An emptied tree next to a new one (lib.rs test insert_into_emptied_tree,*)
(* iter/mod.rs test iterate_over_emptied_tree): a loaded tree loses every  *)
(* entry through PalmTree::remove, then the same inserts are applied to it *)
(* and to a tree made by PalmTree::new, kept in it.fresh.                   *)
(***************************************************************************)
MaxFreshKey == 6

FreshKeys == 1..MaxFreshKey

FreshValues == {0, 1}

\* The keys of m but the last, ascending or descending.
RemovalOrder(m, order) ==
    IF order = "ascending" THEN [i \in 1..(Len(m) - 1) |-> m[i][1]]
    ELSE [i \in 1..(Len(m) - 1) |-> m[Len(m) + 1 - i][1]]

InitEmptied ==
    /\ \E n \in {1, LeafSize + 1, MaxLoad}, order \in {"ascending", "descending"} :
          \E c \in {Removed(load(LoadInput(n)), LoadInput(n),
                            RemovalOrder(LoadInput(n), order))} :
              /\ root = c.t.root
              /\ size = c.t.size
              /\ nat = c.nat
    /\ it = [kind |-> "fresh", fresh |-> TreeNew]
    /\ pc = "last"
    /\ ret = NoRet

\* PalmTree::remove of the one key that is left.
EmptiedRemove ==
    /\ pc = "last"
    /\ \E r \in {remove(Tree, nat[1][1])} :
          /\ root' = r.t.root
          /\ size' = r.t.size
          /\ ret' = [NoRet EXCEPT !.op = "remove", !.arg = <<nat[1][1]>>, !.out = r.out]
    /\ nat' = NatRemove(nat, nat[1][1])
    /\ pc' = "emptied"
    /\ UNCHANGED it

\* PalmTree::insert on the emptied tree and on the new one.
EmptiedInsert(key, value) ==
    /\ pc \in {"emptied", "inserted"}
    /\ \E r \in {insert(Tree, key, value)}, f \in {insert(it.fresh, key, value)} :
          /\ root' = r.t.root
          /\ size' = r.t.size
          /\ it' = [it EXCEPT !.fresh = f.t]
          /\ ret' = [NoRet EXCEPT !.op = "insert", !.arg = <<key, value>>, !.out = r.out,
                                  !.expect = f.out, !.panic = r.panic, !.dbg = r.dbg]
    /\ nat' = NatInsert(nat, key, value)
    /\ pc' = "inserted"

NextEmptied ==
    \/ EmptiedRemove
    \/ \E key \in FreshKeys, value \in FreshValues : EmptiedInsert(key, value)

SpecEmptied == InitEmptied /\ [][NextEmptied]_vars

\* C17: once every entry of a tree has been removed its len is 0 and its
\* iteration is empty, and after any sequence of inserts it has the len, the
\* iteration, the lookups and the insert results of a tree made by new()
\* that was given the same inserts.
C17_EmptiedTreeBehavesAsNew ==
    /\ pc = "emptied" => size = 0 /\ iter(Tree) = <<>> /\ IsSome(root)
    /\ pc \in {"emptied", "inserted"} =>
          /\ size = it.fresh.size
          /\ ret.panic = ""
          /\ pc = "inserted" => ret.out = ret.expect
          /\ \A mine \in {iter(Tree)} : mine = iter(it.fresh) /\ mine = nat
          /\ \A k \in FreshKeys : get(Tree, k) = get(it.fresh, k)

\* Every key was inserted into a tree that had been emptied from height two,
\* one of them twice, and the tree has split its first leaf.
C17_Witness ==
    /\ pc = "inserted"
    /\ size = MaxFreshKey
    /\ nat[1][2] = 1
    /\ Len(Unwrap(root).children) = 2
    /\ ret.out = Some(0)

(***************************************************************************)
(* Opening a range (lib.rs range / range_mut, Iter::new, IterMut::new,     *)
(* paths_from_range): one call with any pair of bounds on a tree with no   *)
(* root, an emptied tree, or a tree that holds entries.                    *)
(***************************************************************************)
RangeCases ==
    {c.t : c \in IterCases}
        \cup {Removed(load(LoadInput(1)), LoadInput(1), <<2>>).t}

InitRange ==
    /\ \E t \in RangeCases :
          /\ root = t.root
          /\ size = t.size
          /\ nat = iter(t)
    /\ it = NoIter
    /\ pc = "idle"
    /\ ret = NoRet

\* PalmTree::range (op = "range") and PalmTree::range_mut (op = "range_mut").
RangeNew(op, lo, hi) ==
    /\ pc = "idle"
    /\ \E p \in {range_panic(lo, hi)} :
          /\ ret' = [NoRet EXCEPT !.op = op, !.arg = <<lo, hi>>, !.panic = p]
          /\ pc' = IF p = "" THEN "iter" ELSE "panic"
          /\ it' = IF p = ""
                   THEN [kind |-> "iter", lo |-> lo, hi |-> hi, iter |-> IterNew(Tree, lo, hi),
                         front |-> <<>>, back |-> <<>>, ended |-> FALSE, late |-> FALSE]
                   ELSE it
    /\ UNCHANGED <<root, size, nat>>

NextRange ==
    \E op \in {"range", "range_mut"}, lo \in IterBounds, hi \in IterBounds : RangeNew(op, lo, hi)

SpecRange == InitRange /\ [][NextRange]_vars

\* The bounds the range constructors must refuse.
RefusedBounds(lo, hi) ==
    \/ lo[1] = "Excluded" /\ hi[1] = "Excluded" /\ lo[2] = hi[2]
    \/ lo[1] \in {"Included", "Excluded"} /\ hi[1] \in {"Included", "Excluded"} /\ lo[2] > hi[2]

\* C18: range and range_mut called with two equal excluded bounds, or with a
\* start key greater than the end key whatever the kinds of the two bounds,
\* panic when the iterator is constructed, on every tree, the tree with no
\* root included, and return no iterator; with any other bounds they return
\* an iterator.
C18_RefusedBoundsPanic ==
    ret.op \in {"range", "range_mut"} =>
        IF RefusedBounds(ret.arg[1], ret.arg[2])
        THEN pc = "panic" /\ ret.panic # "" /\ it = NoIter
        ELSE pc = "iter" /\ ret.panic = "" /\ it.kind = "iter"

\* range_mut with two equal excluded bounds was refused on a tree with no root.
C18_Witness ==
    /\ pc = "panic"
    /\ root = None
    /\ ret.op = "range_mut"
    /\ ret.arg[1] = ret.arg[2]
    /\ ret.arg[1][1] = "Excluded"

(***************************************************************************)
(* PalmTree::load in a debug build (lib.rs): the validation of the order   *)
(* of the input under cfg(debug_assertions), then the load itself.         *)
(***************************************************************************)
\* The validation the loop of load runs on items i.. of the input, with
\* last_record = [index, key]: the panic message, "" when there is none.
RECURSIVE load_validate(_, _, _)
load_validate(input, i, last_record) ==
    IF i > Len(input) THEN ""
    ELSE IF IsSome(last_record.key)
    THEN IF Unwrap(last_record.key) >= input[i][1]
         THEN "PalmTree::load: unordered key at index"
         ELSE load_validate(input, i + 1, [index |-> last_record.index + 1,
                                           key |-> Some(input[i][1])])
    ELSE load_validate(input, i + 1, last_record)

\* let mut last_record = (0, None), then the loop.
load_debug_panic(input) == load_validate(input, 1, [index |-> 0, key |-> None])

MaxStreamKey == 3

MaxStreamLen == 5

\* Every input of at most MaxStreamLen items with keys in 1..MaxStreamKey,
\* ordered or not; the value of an item tells its position.
AnyStreams ==
    UNION {{[i \in 1..n |-> <<ks[i], 100 + i>>] : ks \in [1..n -> 1..MaxStreamKey]} :
               n \in 0..MaxStreamLen}

InitLoadDebug ==
    /\ root = None
    /\ size = 0
    /\ nat = <<>>
    /\ it = NoIter
    /\ pc = "new"
    /\ ret = NoRet

\* PalmTree::load built with debug_assertions.
LoadDebug(input) ==
    /\ pc = "new"
    /\ \E p \in {load_debug_panic(input)} :
          /\ ret' = [NoRet EXCEPT !.op = "load", !.arg = input, !.panic = p]
          /\ pc' = Done(p)
          /\ \E t \in {IF p = "" THEN load(input) ELSE TreeNew} :
                root' = t.root /\ size' = t.size
    /\ UNCHANGED <<nat, it>>

NextLoadDebug == \E input \in AnyStreams : LoadDebug(input)

SpecLoadDebug == InitLoadDebug /\ [][NextLoadDebug]_vars

\* C19: in a debug build load panics whenever some key of the input is not
\* strictly greater than the key before it, wherever in the input that is.
C19_DebugLoadPanicsOnUnorderedInput ==
    ret.op = "load" /\ ~IsAscending(ret.arg) => pc = "panic"

(***************************************************************************)
(* A tree over the Shared pointer kind and its clone (pointer.rs,          *)
(* lib.rs Clone, search.rs).  Pointer::clone of a Shared pointer is        *)
(* Rc::clone, so the clone's root pointer is the allocation the original   *)
(* points at until the original is given a new root; the cursor writes to  *)
(* the nodes of its path through *mut casts.  it.alias tells whether the   *)
(* clone's root is still the original's allocation, it.root is the clone's *)
(* root when it is not, it.nat is what the clone held when it was made.    *)
(* Insertions that split the root are left out.                            *)
(***************************************************************************)
SharedLoads == {0, 1, LeafSize + 1}

SharedKeys == {2, 3, 10}

InitShared ==
    /\ \E n \in SharedLoads : \E t \in {load(LoadInput(n))} :
          /\ root = t.root
          /\ size = t.size
          /\ nat = LoadInput(n)
    /\ it = NoIter
    /\ pc = "idle"
    /\ ret = NoRet

\* PalmTree::clone: the size is copied and the root pointer is cloned.
SharedClone ==
    /\ it = NoIter
    /\ it' = [kind |-> "clone", size |-> size, alias |-> IsSome(root), root |-> None,
              nat |-> nat]
    /\ ret' = [NoRet EXCEPT !.op = "clone"]
    /\ UNCHANGED <<root, size, nat, pc>>

\* The clone as its owner reads it: Pointer::deref of its root pointer.
CloneTree ==
    [root |-> IF it.alias THEN root ELSE it.root, size |-> it.size]

\* PalmTree::insert on the original.  VacantEntry::insert gives a tree of
\* size 0 a new root allocation; every other write goes to the nodes the
\* root allocation holds.
SharedInsert(key, value) ==
    /\ pc = "idle"
    /\ \E r \in {insert(Tree, key, value)} :
          /\ r.panic = "" /\ r.splits = 0
          /\ root' = r.t.root
          /\ size' = r.t.size
          /\ ret' = [NoRet EXCEPT !.op = "insert", !.arg = <<key, value>>, !.out = r.out]
    /\ nat' = NatInsert(nat, key, value)
    /\ it' = IF it # NoIter /\ it.alias /\ size = 0
             THEN [it EXCEPT !.alias = FALSE, !.root = root]
             ELSE it
    /\ UNCHANGED pc

\* PalmTree::remove on the original: PathedPointer::remove writes in place.
SharedRemove(key) ==
    /\ pc = "idle"
    /\ \E r \in {remove(Tree, key)} :
          /\ root' = r.t.root
          /\ size' = r.t.size
          /\ ret' = [NoRet EXCEPT !.op = "remove", !.arg = <<key>>, !.out = r.out]
    /\ nat' = NatRemove(nat, key)
    /\ UNCHANGED <<it, pc>>

NextShared ==
    \/ SharedClone
    \/ \E key \in SharedKeys : SharedInsert(key, 0)
    \/ \E key \in SharedKeys : SharedRemove(key)

SpecShared == InitShared /\ [][NextShared]_vars

\* C20: with the Shared pointer kind, whatever inserts and removes are
\* applied to a tree after it was cloned, the clone keeps the len, the
\* iteration and the lookups it had when it was made.
C20_CloneUnchangedByMutations ==
    it # NoIter =>
        /\ CloneTree.size = Len(it.nat)
        /\ iter(CloneTree) = it.nat
        /\ \A k \in SharedKeys : get(CloneTree, k) = NatGet(it.nat, k)

(***************************************************************************)
(* Structure of the tree: branch keys against the subtrees below them.     *)
(***************************************************************************)
\* The keys held in the leaf slots under node n of the given height.
KeysUnder(n, height) ==
    LET keys(s) == {s[i][1] : i \in 1..Len(s)}
    IN  keys(LeafSlots(n, height))

SetMax(S) == CHOOSE x \in S : \A y \in S : y <= x

\* Branch::highest and Leaf::highest of a child of the given height.
NodeHighest(n, height) == IF height = 0 THEN LeafHighest(n) ELSE BranchHighest(n)

\* Every key of branch b and of the branches below it is the highest key
\* stored under its child and the key its child calls its highest.
RECURSIVE HighKeysAreSubtreeMaxima(_)
HighKeysAreSubtreeMaxima(b) ==
    \A i \in 1..Len(b.keys) :
        /\ \A under \in {KeysUnder(b.children[i], b.height - 1)} :
              under # {} /\ b.keys[i] = SetMax(under)
        /\ b.keys[i] = NodeHighest(b.children[i], b.height - 1)
        /\ b.height > 1 => HighKeysAreSubtreeMaxima(b.children[i])

\* C21: in every tree reached by load, insert and remove, each key of each
\* branch equals the highest key stored in the subtree of the child at its
\* index.
C21_BranchKeysAreSubtreeMaxima ==
    IsSome(root) => HighKeysAreSubtreeMaxima(Unwrap(root))

\* C22: exact_key answers Ok exactly when the key is stored, and then on its
\* slot; it answers Err with a null cursor only for a key above every stored
\* key, and otherwise Err at the slot of the leaf where the key belongs; so
\* push_last only gets keys above the maximum and the debug assertion
\* branch.highest() < key of its loop holds.
C22_ExactKeyFindsSlotOrNullAboveMax ==
    IsSome(root) =>
        /\ ret.dbg
        /\ \A k \in OpKeys :
              \A e \in {exact_key(Unwrap(root), k)}, stored \in {KeysUnder(Unwrap(root), Unwrap(root).height)} :
                  /\ e.ok <=> k \in stored
                  /\ e.ok => PtrKey(Unwrap(root), e.ptr) = Some(k)
                  /\ ~e.ok /\ IsNull(e.ptr) => \A s \in stored : s < k
                  /\ ~e.ok /\ ~IsNull(e.ptr) =>
                        \A leaf \in {LeafOf(Unwrap(root), e.ptr)} :
                            \A j \in 0..(LeafLen(leaf) - 1) :
                                IF j < e.ptr.index THEN At(leaf.keys, j) < k
                                ELSE At(leaf.keys, j) > k

\* The least key of the reference map that is >= k, None if there is none.
NatKeyOrHigher(m, k) ==
    LET s == SelectSeq(m, LAMBDA e : e[1] >= k)
    IN  IF s = <<>> THEN None ELSE Some(s[1][1])

\* C23: in every reachable tree, stale leaf-level and branch-level keys
\* included, key_or_higher(root, k) stands on k if k is stored, otherwise on
\* the least stored key greater than k, and is null only if no stored key
\* is >= k.
C23_KeyOrHigherIsCeiling ==
    IsSome(root) =>
        \A k \in ProbeKeys :
            CursorKey(Tree, key_or_higher(Unwrap(root), k)) = NatKeyOrHigher(nat, k)

\* The greatest key of the reference map that is < k, None if there is none.
NatLowerThanKey(m, k) ==
    LET s == SelectSeq(m, LAMBDA e : e[1] < k)
    IN  IF s = <<>> THEN None ELSE Some(Last(s)[1])

\* C24: in every reachable tree lower_than_key(root, k) stands on the
\* greatest stored key strictly less than k, or is null if there is none,
\* also when k lies between two leaves and when a branch key on the path is
\* stale.
C24_LowerThanKeyIsStrictPredecessor ==
    IsSome(root) =>
        \A k \in ProbeKeys :
            CursorKey(Tree, lower_than_key(Unwrap(root), k)) = NatLowerThanKey(nat, k)

(***************************************************************************)
(* Structure of the tree: heights and node lengths.                        *)
(***************************************************************************)
\* A node is a leaf when it holds values, a branch when it holds children.
IsLeafNode(n) == "values" \in DOMAIN n

\* The lengths of the paths from node n down to the leaves under it.
RECURSIVE LeafDepths(_)
LeafDepths(n) ==
    IF IsLeafNode(n) THEN {0}
    ELSE UNION {{d + 1 : d \in LeafDepths(n.children[i])} : i \in 1..Len(n.children)}

\* Branch b and the branches below it have one key per child, leaves under
\* height 1 and branches of height one less under any other height.
RECURSIVE HeightsStepByOne(_)
HeightsStepByOne(b) ==
    /\ b.height >= 1
    /\ Len(b.keys) = Len(b.children)
    /\ \A i \in 1..Len(b.children) :
          \A c \in {b.children[i]} :
              IF b.height = 1 THEN IsLeafNode(c)
              ELSE ~IsLeafNode(c) /\ c.height = b.height - 1 /\ HeightsStepByOne(c)

\* C25: in every reachable tree with a root all paths from the root to a
\* leaf have the same length, a branch of height 1 holds only leaves and a
\* higher branch holds only branches one lower; load, leaf, branch and root
\* splits and removals keep this.
C25_LeavesAtOneDepth ==
    IsSome(root) =>
        /\ HeightsStepByOne(Unwrap(root))
        /\ Cardinality(LeafDepths(Unwrap(root))) <= 1
        /\ \A d \in LeafDepths(Unwrap(root)) : d = Unwrap(root).height

\* An insert into the loaded tree of height two has split a full branch
\* under the root.
C25_Witness ==
    /\ pc = "done"
    /\ ret.op = "insert"
    /\ ret.len0 = MaxLoad
    /\ size = MaxLoad + 1
    /\ Unwrap(root).height = 2
    /\ Len(Unwrap(root).children) = 3

\* Every leaf under branch b holds 1 to LeafSize entries and every branch
\* under it 1 to BranchSize children.
RECURSIVE NodesWithinBounds(_)
NodesWithinBounds(b) ==
    \A i \in 1..Len(b.children) :
        \A c \in {b.children[i]} :
            IF b.height = 1
            THEN LeafLen(c) \in 1..LeafSize /\ Len(c.values) = Len(c.keys)
            ELSE /\ BranchLen(c) \in 1..BranchSize
                 /\ Len(c.children) = Len(c.keys)
                 /\ NodesWithinBounds(c)

(***************************************************************************)
(* Removals that empty leaves and branches (lib.rs remove, search.rs       *)
(* PathedPointer::remove): a loaded tree of up to height two on which     *)
(* keys of its first and of its last leaves are removed and inserted       *)
(* again in any order.                                                     *)
(***************************************************************************)
CascadeLoads == {1, LeafSize + 1, MaxLoad}

CascadeKeys == {2, 4, 10, 32, 34}

InitCascade ==
    /\ \E n \in CascadeLoads : \E t \in {load(LoadInput(n))} :
          /\ root = t.root
          /\ size = t.size
          /\ nat = LoadInput(n)
    /\ it = NoIter
    /\ pc = "idle"
    /\ ret = NoRet

\* PalmTree::remove
CascadeRemove(key) ==
    /\ pc = "idle"
    /\ \E r \in {remove(Tree, key)} :
          /\ root' = r.t.root
          /\ size' = r.t.size
          /\ ret' = [NoRet EXCEPT !.op = "remove", !.out = r.out]
    /\ nat' = NatRemove(nat, key)
    /\ UNCHANGED <<it, pc>>

\* PalmTree::insert
CascadeInsert(key, value) ==
    /\ pc = "idle"
    /\ \E r \in {insert(Tree, key, value)} :
          /\ root' = r.t.root
          /\ size' = r.t.size
          /\ ret' = [NoRet EXCEPT !.op = "insert", !.out = r.out, !.panic = r.panic]
          /\ pc' = IF r.panic = "" THEN "idle" ELSE "panic"
    /\ nat' = NatInsert(nat, key, value)
    /\ UNCHANGED it

NextCascade ==
    \/ \E key \in CascadeKeys : CascadeRemove(key)
    \/ \E key \in CascadeKeys : CascadeInsert(key, 0)

SpecCascade == InitCascade /\ [][NextCascade]_vars

\* C26: after every insert and remove each leaf holds 1 to L entries and
\* each branch 1 to B children, but for a root of length 0 in a tree of
\* len 0: the removal that empties a leaf takes it out of its parent, and
\* so on upward while the parent is emptied too.
C26_NoEmptyNodeButTheRootOfAnEmptyTree ==
    IsSome(root) =>
        /\ NodesWithinBounds(Unwrap(root))
        /\ BranchLen(Unwrap(root)) \in 0..BranchSize
        /\ Len(Unwrap(root).children) = BranchLen(Unwrap(root))
        /\ BranchLen(Unwrap(root)) = 0 <=> size = 0

\* The removal of the only entry of the last leaf of a height-two tree took
\* the leaf out of its branch and the emptied branch out of the root.
C26_Witness ==
    /\ ret.op = "remove"
    /\ ret.out = Some(<<2 * MaxLoad, 2 * MaxLoad + 100>>)
    /\ size = MaxLoad - 1
    /\ Unwrap(root).height = 2
    /\ Len(Unwrap(root).children) = 1

\* The keys of branch b and of the branches below it increase strictly, and
\* the keys stored under child i are above key i - 1 and not above key i.
RECURSIVE KeysBoundSubtrees(_)
KeysBoundSubtrees(b) ==
    /\ \A i \in 1..(Len(b.keys) - 1) : b.keys[i] < b.keys[i + 1]
    /\ \A i \in 1..Len(b.keys) :
          /\ \A k \in KeysUnder(b.children[i], b.height - 1) :
                /\ k <= b.keys[i]
                /\ i > 1 => b.keys[i - 1] < k
          /\ b.height > 1 => KeysBoundSubtrees(b.children[i])

\* C27: in every reachable tree the keys of a branch increase strictly, key
\* i is greater than or equal to every key stored under child i, and key
\* i - 1 is below every key stored under child i: a branch key may be stale
\* (too high) after a removal, but never too low.
C27_BranchKeysBoundTheirSubtrees ==
    IsSome(root) => KeysBoundSubtrees(Unwrap(root))

(***************************************************************************)
(* Leaf::split on its own (leaf.rs, array.rs): a leaf of any length up to  *)
(* MaxSplitLen, of even or odd capacity, is split once.  it holds the leaf  *)
(* and, after the call, the two leaves returned.                           *)
(***************************************************************************)
MaxSplitLen == 7

\* The leaves with n ascending keys out of 1..MaxSplitLen, the value of a
\* key being the key plus 100.
SplitLeaves ==
    {[keys |-> ks, values |-> [i \in 1..Len(ks) |-> ks[i] + 100]] :
        ks \in {s \in UNION {[1..n -> 1..MaxSplitLen] : n \in 1..MaxSplitLen} :
                   \A i \in 1..(Len(s) - 1) : s[i] < s[i + 1]}}

InitSplit ==
    /\ root = None
    /\ size = 0
    /\ nat = <<>>
    /\ \E leaf \in SplitLeaves : it = [kind |-> "leaf", leaf |-> leaf]
    /\ pc = "whole"
    /\ ret = NoRet

\* Leaf::split
Split ==
    /\ pc = "whole"
    /\ \E sp \in {LeafSplit(it.leaf)} :
          it' = [kind |-> "halves", leaf |-> it.leaf, left |-> sp.left, right |-> sp.right]
    /\ pc' = "split"
    /\ UNCHANGED <<root, size, nat, ret>>

SpecSplit == InitSplit /\ [][Split]_vars

\* C28: Leaf::split of a leaf of length n returns two leaves whose keys, the
\* left's followed by the right's, are the keys of the leaf, and whose values
\* are the values of the leaf in the same way, so that no entry is lost or
\* copied; their lengths are n / 2 rounded down and n / 2 rounded up.
C28_SplitKeepsEveryEntryOnce ==
    pc = "split" =>
        /\ it.left.keys \o it.right.keys = it.leaf.keys
        /\ it.left.values \o it.right.values = it.leaf.values
        /\ {LeafLen(it.left), LeafLen(it.right)}
               = {LeafLen(it.leaf) \div 2, LeafLen(it.leaf) - LeafLen(it.leaf) \div 2}

(***************************************************************************)
(* PathedPointer::insert under PalmTree::insert (search.rs, entry.rs):     *)
(* loaded trees of height one to three, some of them full along a whole    *)
(* path, are given inserts of keys exact_key does not find, and removals.  *)
(* it keeps what the cursor's insert returned before VacantEntry::insert   *)
(* went on: ok, the root before and after the call, and whether the leaf   *)
(* and every branch on the cursor's stack were full.                       *)
(***************************************************************************)
MaxCursorInserts == 2

MaxCursorRemovals == 1

CursorLoads == {LeafSize, LeafSize * BranchSize, MaxLoad,
                LeafSize * BranchSize * BranchSize, LeafSize * BranchSize * BranchSize + 1}

CursorKeys == {1, 27, 31, 33, 129}

CursorRemovedKeys == {2, 30, 32, 34}

\* The leaf under the cursor and every branch on its stack are full.
PathIsFull(tree, ptr) ==
    /\ LeafIsFull(LeafOf(tree, ptr))
    /\ \A i \in 1..Len(ptr.stack) : BranchIsFull(NodeAt(tree, ptr.stack[i].b))

\* What the cursor's insert returned: first is its result on tree.
CursorCall(tree, ptr, first) ==
    [kind |-> "cursor", ok |-> first.ok, panic |-> first.panic,
     before |-> tree, after |-> first.tree, full |-> PathIsFull(tree, ptr)]

InitCursor ==
    /\ \E n \in CursorLoads : \E t \in {load(LoadInput(n))} :
          /\ root = t.root
          /\ size = t.size
          /\ nat = LoadInput(n)
          /\ ret = [NoRet EXCEPT !.len0 = n]
    /\ it = NoIter
    /\ pc = "idle"

\* PalmTree::insert of a key exact_key does not find: VacantEntry::insert
\* calls push_last under a null cursor and the cursor's insert otherwise, and
\* on Err splits the root and tries again.
CursorInsert(key) ==
    /\ pc = "idle"
    /\ size < ret.len0 + MaxCursorInserts
    /\ \E e \in {exact_key(Unwrap(root), key)} :
          /\ ~e.ok
          /\ \E r \in {insert(Tree, key, 0)} :
                /\ it' = IF IsNull(e.ptr) THEN NoIter
                          ELSE CursorCall(Unwrap(root), e.ptr,
                                          ptr_insert(Unwrap(root), e.ptr, key, 0))
                /\ root' = r.t.root
                /\ size' = r.t.size
                /\ ret' = [ret EXCEPT !.op = "insert", !.arg = <<key, 0>>, !.out = r.out,
                                      !.panic = r.panic, !.dbg = r.dbg]
                /\ pc' = IF r.panic = "" THEN "idle" ELSE "panic"
    /\ nat' = NatInsert(nat, key, 0)

\* PalmTree::remove between the inserts.
CursorRemove(key) ==
    /\ pc = "idle"
    /\ size > ret.len0 - MaxCursorRemovals
    /\ \E r \in {remove(Tree, key)} :
          /\ root' = r.t.root
          /\ size' = r.t.size
          /\ ret' = [ret EXCEPT !.op = "remove", !.arg = <<key>>, !.out = r.out]
    /\ nat' = NatRemove(nat, key)
    /\ it' = NoIter
    /\ UNCHANGED pc

NextCursor ==
    \/ \E key \in CursorKeys : CursorInsert(key)
    \/ \E key \in CursorRemovedKeys : CursorRemove(key)

SpecCursor == InitCursor /\ [][NextCursor]_vars

\* C29: the insert of a cursor that exact_key gave returns Err only if the
\* leaf and every branch on the cursor's stack are full, and then no node of
\* the tree has changed; if some branch on the stack is not full, or the
\* leaf is not, the call returns Ok and the key is in the tree with every
\* other entry kept.
C29_ErrOnlyOnFullPathAndNothingChanged ==
    it # NoIter =>
        /\ (it.panic = "" /\ ~it.ok) => (it.full /\ it.after = it.before)
        /\ ~it.full =>
              /\ it.ok
              /\ \A slots \in {LeafSlots(it.after, it.after.height)} :
                    \E i \in 1..Len(slots) :
                       /\ slots[i] = ret.arg
                       /\ SubSeq(slots, 1, i - 1) \o SubSeq(slots, i + 1, Len(slots))
                             = LeafSlots(it.before, it.before.height)

\* The messages of the internal checks of PathedPointer::insert.
InsertChecks ==
    {"walk_path() failed to produce a leaf",
     "tried to insert() a key that already exists",
     "index > len"}

\* C30: no public insert fires an internal check of PathedPointer::insert:
\* the descent after a split reaches a leaf, the key is not found in that
\* leaf, and the insertion index is at most the length of the leaf.
C30_InsertChecksNeverFire ==
    ret.op = "insert" => ret.panic \notin InsertChecks

(***************************************************************************)
(* A cursor walked over the whole tree (search.rs 281-414).                *)
(***************************************************************************)
\* The entries a cursor stands on from ptr on, stepping forward until
\* step_forward returns false; a cursor that is not null then ends the
\* sequence with <<>>.
RECURSIVE forward_visits(_, _)
forward_visits(tree, ptr) ==
    LET next(r) == IF r.ok THEN forward_visits(tree, r.ptr)
                   ELSE IF IsNull(r.ptr) THEN <<>> ELSE << <<>> >>
    IN  IF IsNull(ptr) THEN <<>>
        ELSE << <<Unwrap(PtrKey(tree, ptr)), Unwrap(PtrValue(tree, ptr))>> >>
                \o next(step_forward(tree, ptr))

\* The same with step_back.
RECURSIVE backward_visits(_, _)
backward_visits(tree, ptr) ==
    LET next(r) == IF r.ok THEN backward_visits(tree, r.ptr)
                   ELSE IF IsNull(r.ptr) THEN <<>> ELSE << <<>> >>
    IN  IF IsNull(ptr) THEN <<>>
        ELSE << <<Unwrap(PtrKey(tree, ptr)), Unwrap(PtrValue(tree, ptr))>> >>
                \o next(step_back(tree, ptr))

\* C31: on a tree that is not empty the cursor from lowest, stepped forward,
\* stands on every stored entry once in ascending key order and then
\* step_forward returns false with the cursor null; the cursor from highest,
\* stepped back, does the same in descending order.
C31_CursorWalksVisitEveryEntryInOrder ==
    (pc \in {"idle", "done"} /\ size > 0 /\ IsSome(root)) =>
        /\ forward_visits(Unwrap(root), lowest(Unwrap(root))) = nat
        /\ backward_visits(Unwrap(root), highest(Unwrap(root))) = Reverse(nat)

(***************************************************************************)
(* The recursive insert (leaf.rs 194-209, branch.rs 256-326).  A result is *)
(* [res, node, old]: res is the InsertResult variant, node the node after  *)
(* the call, old the value Replaced carries.                               *)
(***************************************************************************)
\* Leaf::insert that refuses a full leaf before it looks for the key.
LeafInsertRefusingFirst(leaf, key, value) ==
    LET found(r) ==
            IF LeafIsFull(leaf)
            THEN [res |-> "Full", node |-> leaf, old |-> None, kv |-> Some(<<key, value>>)]
            ELSE IF r.ok
            THEN [res |-> "Replaced",
                  node |-> [leaf EXCEPT !.values = SetAt(@, r.index, value)],
                  old |-> Some(At(leaf.values, r.index)), kv |-> None]
            ELSE [res |-> "Added",
                  node |-> LeafInsertUnchecked(leaf, r.index, key, value),
                  old |-> None, kv |-> None]
    IN  found(binary_search(leaf.keys, key))

\* Leaf::insert
LeafInsert(leaf, key, value) ==
    LET found(r) ==
            IF r.ok
            THEN [res |-> "Replaced",
                  node |-> [leaf EXCEPT !.values = SetAt(@, r.index, value)],
                  old |-> Some(At(leaf.values, r.index)), kv |-> None]
            ELSE IF ~LeafIsFull(leaf)
            THEN [res |-> "Added",
                  node |-> LeafInsertUnchecked(leaf, r.index, key, value),
                  old |-> None, kv |-> None]
            ELSE [res |-> "Full", node |-> leaf, old |-> None, kv |-> Some(<<key, value>>)]
    IN  found(binary_search(leaf.keys, key))

\* Branch::insert
RECURSIVE BranchInsert(_, _, _)
BranchInsert(this, key, value) ==
    LET \* The child at index has been given back as result.node.
        put(b, index, result) ==
            [result EXCEPT !.node = [b EXCEPT !.children = SetAt(@, index, result.node)]]
        \* key <= keys[index]
        inner(index, result) ==
            IF result.res # "Full" THEN put(this, index, result)
            ELSE IF BranchIsFull(this) THEN put(this, index, result)
            ELSE LET sp == IF HasBranches(this) THEN BranchSplit(result.node)
                           ELSE LeafSplit(result.node)
                     left_highest == IF HasBranches(this) THEN BranchHighest(sp.left)
                                     ELSE LeafHighest(sp.left)
                 IN  BranchInsert(
                         [this EXCEPT !.keys = ArrayInsert(@, index, left_highest),
                                      !.children = ArrayInsertPair(ArrayRemove(@, index),
                                                                   index, sp.left, sp.right)],
                         key, value)
        end_index == Len(this.keys) - 1
        \* key is above every key of a branch of branches, whose last key is key by now.
        outer(b, result) ==
            IF result.res # "Full" THEN put(b, end_index, result)
            ELSE IF BranchIsFull(b) THEN put(b, end_index, result)
            ELSE LET sp == BranchSplit(result.node)
                 IN  BranchInsert(
                         [b EXCEPT !.keys = ArrayInsert(@, Len(@) - 1, BranchHighest(sp.left)),
                                   !.children = Front(@) \o <<sp.left, sp.right>>],
                         key, value)
        \* key is above every key of a branch of leaves.
        last(leaf) ==
            IF ~LeafIsFull(leaf)
            THEN [res |-> "Added",
                  node |-> [this EXCEPT !.keys = SetAt(@, end_index, key),
                                        !.children = SetAt(@, end_index,
                                            [keys |-> Append(leaf.keys, key),
                                             values |-> Append(leaf.values, value)])],
                  old |-> None, kv |-> None]
            ELSE IF BranchIsFull(this)
            THEN [res |-> "Full", node |-> this, old |-> None, kv |-> Some(<<key, value>>)]
            ELSE [res |-> "Added",
                  node |-> BranchPush(this, key, LeafUnit(key, value)),
                  old |-> None, kv |-> None]
        at(f) ==
            IF IsSome(f)
            THEN inner(Unwrap(f),
                       IF HasBranches(this)
                       THEN BranchInsert(At(this.children, Unwrap(f)), key, value)
                       ELSE LeafInsert(At(this.children, Unwrap(f)), key, value))
            ELSE IF HasBranches(this)
            THEN outer([this EXCEPT !.keys = SetAt(@, end_index, key)],
                       BranchInsert(At(this.children, end_index), key, value))
            ELSE last(At(this.children, end_index))
    IN  at(find_key(this.keys, key))

\* The wrapper of the tree around Branch::insert: an empty tree gets a root
\* of one leaf; a Full that comes out of the root puts the root under a new
\* branch one higher and the insert is tried again.
RECURSIVE insert_recursive(_, _, _)
insert_recursive(t, key, value) ==
    LET grown(b) == BranchPush(BranchNew(b.height + 1), BranchHighest(b), b)
        after(r) ==
            IF r.res = "Added" THEN [root |-> Some(r.node), size |-> t.size + 1]
            ELSE IF r.res = "Replaced" THEN [t EXCEPT !.root = Some(r.node)]
            ELSE insert_recursive([t EXCEPT !.root = Some(grown(r.node))], key, value)
    IN  IF ~IsSome(t.root)
        THEN [root |-> Some(BranchUnit(LeafUnit(key, value))), size |-> 1]
        ELSE after(BranchInsert(Unwrap(t.root), key, value))

(***************************************************************************)
(* The same stream of inserts given to an empty tree through               *)
(* PalmTree::insert (root, size) and through the recursive insert          *)
(* (it.tree).                                                              *)
(***************************************************************************)
MaxTwinLen == 6

TwinKeys == 1..6

InitTwin ==
    /\ root = None
    /\ size = 0
    /\ nat = <<>>
    /\ pc = "idle"
    /\ ret = NoRet
    /\ it = [kind |-> "recursive", tree |-> TreeNew]

TwinInsert(key) ==
    /\ pc = "idle"
    /\ Len(nat) < MaxTwinLen
    /\ \E r \in {insert(Tree, key, 0)} :
          /\ root' = r.t.root
          /\ size' = r.t.size
          /\ ret' = [NoRet EXCEPT !.op = "insert", !.arg = <<key, 0>>, !.out = r.out,
                                  !.panic = r.panic]
          /\ pc' = IF r.panic = "" THEN "idle" ELSE "panic"
    /\ it' = [it EXCEPT !.tree = insert_recursive(@, key, 0)]
    /\ nat' = NatInsert(nat, key, 0)

SpecTwin == InitTwin /\ [][\E key \in TwinKeys : TwinInsert(key)]_vars

\* C32: after the same stream of inserts into an empty tree, the tree of the
\* recursive insert and the tree of the cursor-driven insert are the same,
\* node for node.
C32_BothInsertsBuildTheSameTree ==
    it.kind = "recursive" => (it.tree.root = root /\ it.tree.size = size)

\* The root of t is not a branch of branches with one child only.
RootIsTrimmed(t) ==
    IsSome(t.root) => ~(HasBranches(Unwrap(t.root)) /\ BranchLen(Unwrap(t.root)) = 1)

\* C33: after a load and after every remove, remove_lowest and
\* remove_highest, the root is not a branch of branches with a single child.
C33_RootTrimmedAfterLoadAndRemove ==
    /\ ret.op \in {"none", "remove"} => RootIsTrimmed(Tree)
    /\ RootIsTrimmed(remove_lowest(Tree).t)
    /\ RootIsTrimmed(remove_highest(Tree).t)

\* C34: the insert that follows the removal of the last entry keeps the root
\* branch the removal left allocated with length 0: the root after the
\* insert is that branch, of the height it had, with the entry under it.
C34_InsertReusesTheEmptiedRoot ==
    [][(pc = "emptied" /\ pc' = "inserted")
          => Unwrap(root').height = Unwrap(root).height]_vars

\* Under node n every leaf holds LeafSize entries and every branch BranchSize
\* children, but for the nodes on the rightmost path when onright holds for n.
RECURSIVE FilledOffTheRightPath(_, _)
FilledOffTheRightPath(n, onright) ==
    IF IsLeafNode(n) THEN onright \/ LeafLen(n) = LeafSize
    ELSE /\ onright \/ BranchLen(n) = BranchSize
         /\ \A i \in 1..Len(n.children) :
               FilledOffTheRightPath(n.children[i], onright /\ i = Len(n.children))

\* C35: after a load of one or more ascending pairs every leaf but the
\* rightmost holds LeafSize entries and every branch off the rightmost path
\* holds BranchSize children.
C35_LoadFillsAllButTheRightPath ==
    (pc = "done" /\ ret.op = "load" /\ Len(nat) > 0) =>
        /\ IsSome(root)
        /\ FilledOffTheRightPath(Unwrap(root), TRUE)

C35_Witness ==
    /\ pc = "done"
    /\ ret.op = "load"
    /\ Len(nat) = LeafSize * BranchSize * BranchSize + LeafSize + 1
    /\ Unwrap(root).height = 3
    /\ BranchLen(Unwrap(root)) = 2
    /\ BranchLen(Last(Unwrap(root).children)) = 1
    /\ BranchLen(Last(Last(Unwrap(root).children).children)) = 2
    /\ LeafLen(Last(Last(Last(Unwrap(root).children).children).children)) = 1

(***************************************************************************)
(* Leaf::insert (leaf.rs 194-209) called again and again on one leaf that  *)
(* starts empty; it keeps the leaf, the leaf before the last call and the  *)
(* result of that call, nat the pairs a sorted map would hold.             *)
(***************************************************************************)
MaxLeafKey == 6

LeafKeys == 1..MaxLeafKey

LeafValues == {0, 1}

InitLeaf ==
    /\ root = None
    /\ size = 0
    /\ nat = <<>>
    /\ it = [kind |-> "leaf", leaf |-> LeafNew, before |-> LeafNew,
             result |-> [res |-> "none"]]
    /\ pc = "new"
    /\ ret = NoRet

LeafInsertCall(key, value) ==
    /\ \E r \in {LeafInsert(it.leaf, key, value)} :
          /\ it' = [kind |-> "leaf", leaf |-> r.node, before |-> it.leaf, result |-> r]
          /\ nat' = IF r.res = "Full" THEN nat ELSE NatInsert(nat, key, value)
    /\ ret' = [NoRet EXCEPT !.op = "insert", !.arg = <<key, value>>]
    /\ pc' = "inserted"
    /\ UNCHANGED <<root, size>>

SpecLeaf == InitLeaf /\ [][\E key \in LeafKeys, value \in LeafValues : LeafInsertCall(key, value)]_vars

LeafPairs(leaf) == [i \in 1..Len(leaf.keys) |-> <<leaf.keys[i], leaf.values[i]>>]

\* C36: Leaf::insert of a key the leaf holds replaces the value and returns
\* Replaced with the old value, keys unchanged; of a key it does not hold,
\* with room, puts the pair at its sorted place and returns Added; of a key
\* it does not hold, without room, returns Full with the same key and value
\* and leaves the leaf as it was.
C36_LeafInsertHasThreeOutcomes ==
    pc = "inserted" =>
        LET key     == ret.arg[1]
            value   == ret.arg[2]
            before  == it.before
            present == \E i \in 1..Len(before.keys) : before.keys[i] = key
            r       == it.result
        IN  /\ present =>
                  /\ r.res = "Replaced"
                  /\ \E i \in 1..Len(before.keys) :
                        before.keys[i] = key /\ r.old = Some(before.values[i])
                  /\ it.leaf.keys = before.keys
                  /\ LeafPairs(it.leaf) = NatInsert(LeafPairs(before), key, value)
            /\ (~present /\ LeafLen(before) < LeafSize) =>
                  /\ r.res = "Added"
                  /\ LeafLen(it.leaf) = LeafLen(before) + 1
                  /\ LeafPairs(it.leaf) = NatInsert(LeafPairs(before), key, value)
            /\ (~present /\ LeafLen(before) >= LeafSize) =>
                  /\ r.res = "Full"
                  /\ r.kv = Some(<<key, value>>)
                  /\ it.leaf = before
            /\ LeafPairs(it.leaf) = nat

\* A full leaf has refused a key it does not hold.
C36_Witness ==
    /\ pc = "inserted"
    /\ LeafLen(it.before) = LeafSize
    /\ it.result.res = "Full"
    /\ it.result.kv = Some(<<MaxLeafKey, 1>>)
    /\ ret.arg = <<MaxLeafKey, 1>>
    /\ it.leaf.keys = <<1, 2, 3, 4>>

(***************************************************************************)
(* Child cells leaving their branch (branch.rs 18-32, 110-123,             *)
(* branch/node.rs): a cell is turned into an owned leaf or an owned branch *)
(* by the height of the branch that held it, and the owned node is then    *)
(* dropped.  An event [as, node] says what the cell was turned into and    *)
(* what it pointed at.                                                     *)
(***************************************************************************)
\* unwrap_branch for a branch of height above 1, unwrap_leaf for height 1.
unwrap_always_leaf(height) == "leaf"

unwrap_by_height(height) == IF height > 1 THEN "branch" ELSE "leaf"

NodeKind(n) == IF IsLeafNode(n) THEN "leaf" ELSE "branch"

RECURSIVE drop_branch(_)
\* A cell of a branch of this height turned into an owned node that is dropped.
RECURSIVE drop_cell(_, _)
drop_cell(height, node) ==
    << [as |-> unwrap_by_height(height), node |-> NodeKind(node)] >>
       \o (IF unwrap_by_height(height) = "branch" /\ NodeKind(node) = "branch"
           THEN drop_branch(node) ELSE <<>>)

\* Drop for Branch: the children are popped from the front, one by one.
drop_branch(b) ==
    LET RECURSIVE over(_)
        over(i) == IF i > Len(b.children) THEN <<>>
                   ELSE drop_cell(b.height, b.children[i]) \o over(i + 1)
    IN  over(1)

\* The cells PathedPointer::remove takes out of the branches on the stack
\* once the leaf is empty.
RECURSIVE remove_cells(_, _)
remove_cells(tree, stack) ==
    IF stack = <<>> THEN <<>>
    ELSE LET top    == Last(stack)
             branch == NodeAt(tree, top.b)
             b2     == BranchRemoveChild(branch, top.i)
             t2     == ReplaceAt(tree, top.b, b2)
         IN  drop_cell(branch.height, At(branch.children, top.i))
                \o (IF ~BranchIsEmpty(b2) THEN <<>> ELSE remove_cells(t2, Front(stack)))

ptr_remove_cells(tree, ptr) ==
    LET lpath == Unwrap(ptr.leaf)
        leaf2 == LeafRemoveUnchecked(NodeAt(tree, lpath), ptr.index)
    IN  IF LeafLen(leaf2) = 0 THEN remove_cells(ReplaceAt(tree, lpath, leaf2), ptr.stack)
        ELSE <<>>

\* The number of child cells under branch b.
RECURSIVE CellCount(_)
CellCount(b) ==
    IF IsLeafNode(b) THEN 0
    ELSE LET RECURSIVE over(_)
             over(i) == IF i > Len(b.children) THEN 0
                        ELSE 1 + CellCount(b.children[i]) + over(i + 1)
         IN  over(1)

\* Every cell of a branch of height 1 points at a leaf and every cell of a
\* higher branch at a branch.
RECURSIVE CellsMatchHeights(_)
CellsMatchHeights(b) ==
    \A i \in 1..Len(b.children) :
        /\ NodeKind(b.children[i]) = unwrap_by_height(b.height)
        /\ ~IsLeafNode(b.children[i]) => CellsMatchHeights(b.children[i])

DropLoads == {1, LeafSize + 1, MaxLoad}

DropKeys == {2, 3, 10, 33, 34}

InitDrop ==
    /\ \E n \in DropLoads : \E t \in {load(LoadInput(n))} :
          /\ root = t.root
          /\ size = t.size
          /\ nat = LoadInput(n)
          /\ it = [kind |-> "cells", events |-> <<>>, before |-> CellCount(Unwrap(t.root))]
    /\ pc = "idle"
    /\ ret = NoRet

\* PalmTree::remove
DropRemove(key) ==
    /\ pc = "idle"
    /\ IsSome(root)
    /\ \E r \in {remove(Tree, key)}, e \in {exact_key(Unwrap(root), key)} :
          /\ root' = r.t.root
          /\ size' = r.t.size
          /\ ret' = [NoRet EXCEPT !.op = "remove", !.arg = <<key>>, !.out = r.out]
          /\ it' = [kind |-> "cells",
                    events |-> IF e.ok THEN ptr_remove_cells(Unwrap(root), e.ptr) ELSE <<>>,
                    before |-> CellCount(Unwrap(root))]
    /\ nat' = NatRemove(nat, key)
    /\ UNCHANGED pc

\* PalmTree::insert
DropInsert(key) ==
    /\ pc = "idle"
    /\ \E r \in {insert(Tree, key, 0)} :
          /\ root' = r.t.root
          /\ size' = r.t.size
          /\ ret' = [NoRet EXCEPT !.op = "insert", !.arg = <<key, 0>>, !.out = r.out,
                                  !.panic = r.panic]
          /\ pc' = IF r.panic = "" THEN "idle" ELSE "panic"
    /\ it' = [kind |-> "cells", events |-> <<>>, before |-> 0]
    /\ nat' = NatInsert(nat, key, 0)

\* The tree goes out of scope: the root branch is dropped.
DropTree ==
    /\ pc = "idle"
    /\ IsSome(root)
    /\ it' = [kind |-> "cells", events |-> drop_branch(Unwrap(root)),
              before |-> CellCount(Unwrap(root))]
    /\ root' = None
    /\ size' = 0
    /\ nat' = <<>>
    /\ ret' = [NoRet EXCEPT !.op = "drop"]
    /\ pc' = "dropped"

NextDrop ==
    \/ \E key \in DropKeys : DropRemove(key)
    \/ \E key \in DropKeys : DropInsert(key)
    \/ DropTree

SpecDrop == InitDrop /\ [][NextDrop]_vars

\* C37: every cell that leaves a branch, in a remove or when the tree is
\* dropped, is turned into an owned leaf when it points at a leaf and into an
\* owned branch when it points at a branch, each cell once, and in every
\* tree the cells of a branch of height 1 point at leaves and those of a
\* higher branch at branches, so that no cell is dropped as a cell.
C37_CellsAreUnwrappedByHeightOnce ==
    /\ IsSome(root) => CellsMatchHeights(Unwrap(root))
    /\ \A i \in 1..Len(it.events) : it.events[i].as = it.events[i].node
    /\ ret.op \in {"remove", "drop"} =>
          Len(it.events) = it.before - (IF IsSome(root) THEN CellCount(Unwrap(root)) ELSE 0)

\* A tree of height 2 was dropped after a remove had emptied a leaf.
C37_Witness ==
    /\ pc = "dropped"
    /\ ret.op = "drop"
    /\ it.before = 5
    /\ Len(it.events) = 5
    /\ \E i \in 1..Len(it.events) : it.events[i].as = "branch"

(***************************************************************************)
(* The search primitives of search.rs 10-101 called on one sorted slice    *)
(* with one key.  it keeps the slice, the key, the function called, its    *)
(* result and the indices of the slice it read.                            *)
(***************************************************************************)
MaxFindLen == 5

MaxFindKey == 5

\* The slices: sorted, with and without equal neighbours, and the empty one.
FindSlices ==
    {s \in UNION {[1..n -> 1..MaxFindKey] : n \in 0..MaxFindLen} :
        \A i \in 1..(Len(s) - 1) : s[i] <= s[i + 1]}

FindTargets == 0..(MaxFindKey + 1)

\* The indices the loop of find_key and find_key_or_next reads.
RECURSIVE find_key_reads(_, _, _, _)
find_key_reads(keys, key, low, high) ==
    IF low = high THEN {}
    ELSE LET mid == (low + high) \div 2
         IN  {mid} \cup (IF At(keys, mid) < key
                         THEN find_key_reads(keys, key, mid + 1, high)
                         ELSE find_key_reads(keys, key, low, mid))

\* The indices the loop of find_key_or_prev reads.
RECURSIVE find_key_or_prev_reads(_, _, _, _)
find_key_or_prev_reads(keys, key, low, high) ==
    IF low = high THEN {}
    ELSE LET mid == (low + high + 1) \div 2
         IN  {mid} \cup (IF At(keys, mid) > key
                         THEN find_key_or_prev_reads(keys, key, low, mid - 1)
                         ELSE find_key_or_prev_reads(keys, key, mid, high))

InitFind ==
    /\ root = None
    /\ size = 0
    /\ nat = <<>>
    /\ \E keys \in FindSlices : it = [kind |-> "slice", keys |-> keys]
    /\ pc = "slice"
    /\ ret = NoRet

\* find_key(keys, key), and find_key_linear next to it.
FindKey(key) ==
    /\ pc = "slice"
    /\ it' = [kind |-> "find_key", keys |-> it.keys, key |-> key,
              out |-> find_key(it.keys, key),
              linear |-> find_key_linear(it.keys, key),
              reads |-> IF Len(it.keys) = 0 THEN {}
                        ELSE \* the loop, then keys[low] unless low = size
                             find_key_reads(it.keys, key, 0, Len(it.keys) - 1)
                                \cup ({find_key_loop(it.keys, key, 0, Len(it.keys) - 1)}
                                         \ {Len(it.keys)})]
    /\ pc' = "found"
    /\ UNCHANGED <<root, size, nat, ret>>

\* find_key_or_next(keys, key) on a slice that is not empty.
FindKeyOrNext(key) ==
    /\ pc = "slice"
    /\ Len(it.keys) > 0
    /\ it' = [kind |-> "find_key_or_next", keys |-> it.keys, key |-> key,
              out |-> find_key_or_next(it.keys, key),
              reads |-> find_key_reads(it.keys, key, 0, Len(it.keys) - 1)]
    /\ pc' = "found"
    /\ UNCHANGED <<root, size, nat, ret>>

\* find_key_or_prev(keys, key) on a slice that is not empty.
FindKeyOrPrev(key) ==
    /\ pc = "slice"
    /\ Len(it.keys) > 0
    /\ it' = [kind |-> "find_key_or_prev", keys |-> it.keys, key |-> key,
              out |-> find_key_or_prev(it.keys, key),
              reads |-> find_key_or_prev_reads(it.keys, key, 0, Len(it.keys) - 1)]
    /\ pc' = "found"
    /\ UNCHANGED <<root, size, nat, ret>>

NextFind ==
    \/ \E key \in FindTargets : FindKey(key)
    \/ \E key \in FindTargets : FindKeyOrNext(key)
    \/ \E key \in FindTargets : FindKeyOrPrev(key)

SpecFind == InitFind /\ [][NextFind]_vars

\* The indices of the slice, from 0.
SliceIndices(keys) == 0..(Len(keys) - 1)

\* C38: on a sorted slice, the empty one too, find_key returns Some(i) for
\* the least i with keys[i] >= key and None when every key is smaller, reads
\* only inside the slice, and agrees with find_key_linear.
C38_FindKeyIsTheLeastIndexNotBelow ==
    it.kind = "find_key" =>
        LET Hits == {i \in SliceIndices(it.keys) : At(it.keys, i) >= it.key}
        IN  /\ Hits = {} => it.out = None
            /\ Hits # {} => it.out = Some(CHOOSE i \in Hits : \A j \in Hits : i <= j)
            /\ it.reads \subseteq SliceIndices(it.keys)
            /\ it.out = it.linear

\* A key between equal keys of a full-length slice, found past the middle.
C38_Witness ==
    /\ it.kind = "find_key"
    /\ Len(it.keys) = MaxFindLen
    /\ it.keys[3] = it.keys[4]
    /\ it.key = it.keys[3]
    /\ it.keys[2] < it.key
    /\ it.out = Some(2)
    /\ it.linear = Some(2)

\* C39: on a strictly increasing slice that is not empty, find_key_or_next
\* returns the least i with keys[i] >= key, or the last index when every key
\* is smaller; find_key_or_prev returns the greatest i with keys[i] <= key,
\* or 0 when every key is greater; both read inside the slice only.
C39_FindOrNextAndOrPrev ==
    (it.kind \in {"find_key_or_next", "find_key_or_prev"}
        /\ \A i \in 1..(Len(it.keys) - 1) : it.keys[i] < it.keys[i + 1]) =>
        LET Above == {i \in SliceIndices(it.keys) : At(it.keys, i) >= it.key}
            Below == {i \in SliceIndices(it.keys) : At(it.keys, i) <= it.key}
        IN  /\ it.reads \subseteq SliceIndices(it.keys)
            /\ it.out \in SliceIndices(it.keys)
            /\ it.kind = "find_key_or_next" =>
                  it.out = IF Above = {} THEN Len(it.keys) - 1
                           ELSE CHOOSE i \in Above : \A j \in Above : i <= j
            /\ it.kind = "find_key_or_prev" =>
                  it.out = IF Below = {} THEN 0
                           ELSE CHOOSE i \in Below : \A j \in Below : i >= j

\* find_key_or_prev on a key between two keys of a strictly increasing slice.
C39_Witness ==
    /\ it.kind = "find_key_or_prev"
    /\ it.keys = <<1, 2, 4, 5>>
    /\ it.key = 3
    /\ it.out = 1

\* ---------------------------------------------------------------------------
\* pointer.rs: the three pointer kinds.  A handle is one word; new() stores a
\* Box<A>, an Rc<A> or an Arc<A> in it and every other function casts the word
\* back to a smart-pointer type before using it.  The heap is a sequence of
\* allocations [as, strong, value]: `as` is the type that made the allocation,
\* `strong` its reference count (1 for a Box, 0 once freed).

PointerKinds == {"Unique", "Shared", "SyncShared"}

PointerFns == {"new", "into_raw", "from_raw", "deref", "make_mut", "drop_ptr", "clone"}

PointerValues == {7, 9}

MaxAllocs == 3

MaxPointers == 2

\* The smart-pointer type function `fn` of pointer kind `kind` casts the handle to.
cast_to(kind, fn) ==
    CASE kind = "Unique" -> "Box"
      [] kind = "Shared" -> "Rc"
      [] kind = "SyncShared" -> IF fn = "deref" THEN "Box" ELSE "Arc"

\* The values a read of the pointee can give when the handle is used as a `type`.
\* A Box<A> points at the A itself, an Rc<A> or Arc<A> at the reference counts
\* in front of it; a handle read as another type than the allocation's reads
\* the counts as an A, which is undefined: the strong count or any value.
read_as(cell, type) ==
    IF type = cell.as THEN {cell.value}
    ELSE {cell.strong} \cup PointerValues

NoCall == [fn |-> "none", cast |-> "none", stored |-> "none", by |-> "none",
           out |-> 0, value |-> 0]

InitPointer ==
    /\ root = None
    /\ size = 0
    /\ nat = <<>>
    /\ pc = "pointer"
    /\ ret = NoRet
    /\ \E kind \in PointerKinds :
          it = [kind |-> "pointer", pk |-> kind, heap |-> <<>>, ptrs |-> <<>>,
                call |-> NoCall]

\* Pointer::new(value)
PointerNew(value) ==
    /\ pc = "pointer"
    /\ Len(it.heap) < MaxAllocs
    /\ Len(it.ptrs) < MaxPointers
    /\ LET type == cast_to(it.pk, "new")
       IN it' = [it EXCEPT
                   !.heap = Append(it.heap, [as |-> type, strong |-> 1, value |-> value]),
                   !.ptrs = Append(it.ptrs, [addr |-> Len(it.heap) + 1, by |-> "new"]),
                   !.call = [fn |-> "new", cast |-> type, stored |-> type, by |-> "new",
                             out |-> value, value |-> value]]
    /\ UNCHANGED <<root, size, nat, pc, ret>>

\* Pointer::cast_into: into_raw followed by from_raw
PointerFromRaw(i) ==
    /\ pc = "pointer"
    /\ i \in 1..Len(it.ptrs)
    /\ LET p == it.ptrs[i]
           cell == it.heap[p.addr]
           raw == cast_to(it.pk, "into_raw")
           type == cast_to(it.pk, "from_raw")
       IN /\ raw = cell.as
          /\ it' = [it EXCEPT
                      !.ptrs[i] = [addr |-> p.addr, by |-> "from_raw"],
                      !.call = [fn |-> "from_raw", cast |-> type, stored |-> cell.as,
                                by |-> p.by, out |-> cell.value, value |-> cell.value]]
    /\ UNCHANGED <<root, size, nat, pc, ret>>

\* <Pointer as Deref>::deref
PointerDeref(i) ==
    /\ pc = "pointer"
    /\ i \in 1..Len(it.ptrs)
    /\ LET p == it.ptrs[i]
           cell == it.heap[p.addr]
           type == cast_to(it.pk, "deref")
       IN \E out \in read_as(cell, type) :
             it' = [it EXCEPT
                      !.call = [fn |-> "deref", cast |-> type, stored |-> cell.as,
                                by |-> p.by, out |-> out, value |-> cell.value]]
    /\ UNCHANGED <<root, size, nat, pc, ret>>

\* *Pointer::make_mut(this) = value
PointerMakeMut(i, value) ==
    /\ pc = "pointer"
    /\ i \in 1..Len(it.ptrs)
    /\ LET p == it.ptrs[i]
           cell == it.heap[p.addr]
           type == cast_to(it.pk, "make_mut")
           call == [fn |-> "make_mut", cast |-> type, stored |-> cell.as,
                    by |-> p.by, out |-> value, value |-> cell.value]
       IN IF type = "Box" \/ cell.strong = 1
          THEN it' = [it EXCEPT !.heap[p.addr].value = value, !.call = call]
          ELSE /\ Len(it.heap) < MaxAllocs
               /\ it' = [it EXCEPT
                           !.heap = Append([it.heap EXCEPT ![p.addr].strong = cell.strong - 1],
                                           [as |-> type, strong |-> 1, value |-> value]),
                           !.ptrs[i] = [addr |-> Len(it.heap) + 1, by |-> p.by],
                           !.call = call]
    /\ UNCHANGED <<root, size, nat, pc, ret>>

\* <Pointer as Clone>::clone
PointerClone(i) ==
    /\ pc = "pointer"
    /\ i \in 1..Len(it.ptrs)
    /\ Len(it.ptrs) < MaxPointers
    /\ LET p == it.ptrs[i]
           cell == it.heap[p.addr]
           type == cast_to(it.pk, "clone")
       IN IF it.pk = "Unique"
          THEN /\ Len(it.heap) < MaxAllocs
               /\ \E out \in read_as(cell, cast_to(it.pk, "deref")) :
                     it' = [it EXCEPT
                              !.heap = Append(it.heap, [as |-> cast_to(it.pk, "new"),
                                                        strong |-> 1, value |-> out]),
                              !.ptrs = Append(it.ptrs, [addr |-> Len(it.heap) + 1,
                                                        by |-> "new"]),
                              !.call = [fn |-> "clone", cast |-> type, stored |-> cell.as,
                                        by |-> p.by, out |-> out, value |-> cell.value]]
          ELSE it' = [it EXCEPT
                        !.heap[p.addr].strong = cell.strong + 1,
                        !.ptrs = Append(it.ptrs, [addr |-> p.addr, by |-> p.by]),
                        !.call = [fn |-> "clone", cast |-> type, stored |-> cell.as,
                                  by |-> p.by, out |-> cell.value, value |-> cell.value]]
    /\ UNCHANGED <<root, size, nat, pc, ret>>

\* <Pointer as Drop>::drop
PointerDrop(i) ==
    /\ pc = "pointer"
    /\ i \in 1..Len(it.ptrs)
    /\ LET p == it.ptrs[i]
           cell == it.heap[p.addr]
           type == cast_to(it.pk, "drop_ptr")
       IN it' = [it EXCEPT
                   !.heap[p.addr].strong = cell.strong - 1,
                   !.ptrs = ArrayRemove(it.ptrs, i - 1),
                   !.call = [fn |-> "drop_ptr", cast |-> type, stored |-> cell.as,
                             by |-> p.by, out |-> cell.value, value |-> cell.value]]
    /\ UNCHANGED <<root, size, nat, pc, ret>>

NextPointer ==
    \/ \E value \in PointerValues : PointerNew(value)
    \/ \E i \in 1..MaxPointers : PointerFromRaw(i)
    \/ \E i \in 1..MaxPointers : PointerDeref(i)
    \/ \E i \in 1..MaxPointers, value \in PointerValues : PointerMakeMut(i, value)
    \/ \E i \in 1..MaxPointers : PointerClone(i)
    \/ \E i \in 1..MaxPointers : PointerDrop(i)

SpecPointer == InitPointer /\ [][NextPointer]_vars

\* C40: for each pointer kind, every function casts the handle to the
\* smart-pointer type that made the allocation, and a pointer made by new or
\* from_raw dereferences to the value stored in it.
C40_HandleIsAlwaysReadAsStored ==
    it.call.fn \in PointerFns =>
        /\ it.call.cast = it.call.stored
        /\ (it.call.fn = "deref" /\ it.call.by \in {"new", "from_raw"})
              => it.call.out = it.call.value

====
